---- MODULE Spec2Model ----
(***************************************************************************)
(* Model of guilhermegules/data-structures: the indexed d-ary min heap     *)
(* (typescript/src/min-indexed-d-heap.ts).                                 *)
(*                                                                         *)
(* The heap object is the record `heap` whose fields carry the names of    *)
(* the class fields (sz, N, D, child, parent, pm, im, values).  Every      *)
(* public method is an operator from the object before the call to the     *)
(* object after it together with what the call returned or threw, and one  *)
(* action that applies it; the private helpers (swap, less, minChild,      *)
(* sink, swim) are operators that compute what the loops compute.          *)
(*                                                                         *)
(* The state holds the object only, not the last call: a claim about what  *)
(* a call returns or changes is stated over every call that can be made in *)
(* a reachable state, through the operator of the method.                  *)
(***************************************************************************)
EXTENDS Integers, Sequences, FiniteSets, TLC

VARIABLES heap, phase, polled, inserted, args, bheap, tree, otree, stored, run,
          latest

vars ==
  <<heap, phase, polled, inserted, args, bheap, tree, otree, stored, run,
    latest>>

\* the variables that only one scenario writes: in every other specification
\* they stay as its Init leaves them
others == <<args, bheap, tree, otree, stored, run, latest>>

(* ------------------------------- bounds -------------------------------- *)

\* constructor arguments: degree in 1..MaxDegree, maxSize in 0..MaxSize
MaxDegree == 3
MaxSize == 4
\* values are the numbers 1..MaxVal
MaxVal == 2

(* ------------------------------ encodings ------------------------------ *)

\* the -1 stored in pm and im for "no slot" / "no key"
Absent == -1
\* null in the values array; the values callers pass are 1..MaxVal
Null == 0

Vals == 1..MaxVal

Max(a, b) == IF a >= b THEN a ELSE b
Min(a, b) == IF a <= b THEN a ELSE b

\* the comparator the tests construct every heap with: (a, b) => a - b
compare(a, b) == a - b

\* the AVL trees: a null node reference, and a tree object after
\* construction (root = null, nodeCount = 0)
NullNode == [isNull |-> TRUE]

EmptyTree == [root |-> NullNode, nodeCount |-> 0]

\* no call is running: run.pc is "idle".  While a call runs one of the loops
\* of sink and swim, run holds the loop (pc), its variable i, the argument
\* the loop was called with (from), the exchanges it has made (swaps), what
\* the method does after the loop (rest) and the key a delete removes (ki)
Idle ==
  [pc |-> "idle", i |-> 0, from |-> 0, swaps |-> 0, rest |-> <<>>,
   ki |-> Absent]

(* ----------------------------- constructor ----------------------------- *)

\* variant: no lower bound on the degree
construct_noClamp(degree, maxSize) ==
  LET d == degree
      n == Max(d + 1, maxSize)
  IN  [ D      |-> d,
        N      |-> n,
        sz     |-> 0,
        parent |-> [i \in 0..(n - 1) |-> (i - 1) \div d],
        child  |-> [i \in 0..(n - 1) |-> i * d + 1],
        pm     |-> [i \in 0..(n - 1) |-> Absent],
        im     |-> [i \in 0..(n - 1) |-> Absent],
        values |-> [i \in 0..(n - 1) |-> Null] ]

\* new MinIndexedDHeap(degree, maxSize, comparator), for maxSize > 0
construct(degree, maxSize) ==
  LET d == Max(2, degree)
      n == Max(d + 1, maxSize)
  IN  [ D      |-> d,
        N      |-> n,
        sz     |-> 0,
        parent |-> [i \in 0..(n - 1) |-> (i - 1) \div d],
        child  |-> [i \in 0..(n - 1) |-> i * d + 1],
        pm     |-> [i \in 0..(n - 1) |-> Absent],
        im     |-> [i \in 0..(n - 1) |-> Absent],
        values |-> [i \in 0..(n - 1) |-> Null] ]

\* what is left when the constructor throws "maxSize <= 0": no object
NoHeap ==
  [ D |-> 0, N |-> 0, sz |-> 0,
    parent |-> [i \in {} |-> 0], child |-> [i \in {} |-> 0],
    pm |-> [i \in {} |-> 0], im |-> [i \in {} |-> 0],
    values |-> [i \in {} |-> 0] ]

\* variant: a fixed degree other than 2
constructBinary_ternary(maxSize) == construct(3, maxSize)

\* new MinIndexedBinaryHeap(maxSize, comparator): super(2, maxSize,
\* comparator), and nothing overridden
constructBinary(maxSize) == construct(2, maxSize)

(* ---------------------------- heap helpers ----------------------------- *)

size(h) == h.sz

isEmpty(h) == h.sz = 0

\* contains(ki), once keyInBoundsOrThrow has passed
contains(h, ki) == h.pm[ki] # Absent

lessValue(a, b) == compare(a, b) < 0

less(h, i, j) == compare(h.values[h.im[i]], h.values[h.im[j]]) < 0

\* variant: swap that leaves the position of the key of slot i as it was
swap_onePm(h, i, j) ==
  LET pm1 == [h.pm EXCEPT ![h.im[j]] = i]
      tmp == h.im[i]
      im1 == [h.im EXCEPT ![i] = h.im[j]]
      im2 == [im1 EXCEPT ![j] = tmp]
  IN  [h EXCEPT !.pm = pm1, !.im = im2]

\* variant: swap that exchanges the values array entries as well
swap_withValues(h, i, j) ==
  LET pm1 == [h.pm EXCEPT ![h.im[j]] = i]
      pm2 == [pm1 EXCEPT ![h.im[i]] = j]
      tmp == h.im[i]
      im1 == [h.im EXCEPT ![i] = h.im[j]]
      im2 == [im1 EXCEPT ![j] = tmp]
      v1  == [h.values EXCEPT ![i] = h.values[j]]
      v2  == [v1 EXCEPT ![j] = h.values[i]]
  IN  [h EXCEPT !.pm = pm2, !.im = im2, !.values = v2]

swap(h, i, j) ==
  LET pm1 == [h.pm EXCEPT ![h.im[j]] = i]
      pm2 == [pm1 EXCEPT ![h.im[i]] = j]
      tmp == h.im[i]
      im1 == [h.im EXCEPT ![i] = h.im[j]]
      im2 == [im1 EXCEPT ![j] = tmp]
  IN  [h EXCEPT !.pm = pm2, !.im = im2]

\* the for loop of minChild: j runs over [j, to), i is the running minimum
RECURSIVE minChildLoop(_, _, _, _, _)
minChildLoop(h, j, to, i, index) ==
  IF j < to
  THEN IF less(h, j, i)
       THEN minChildLoop(h, j + 1, to, j, j)
       ELSE minChildLoop(h, j + 1, to, i, index)
  ELSE index

minChild(h, i) ==
  LET from == h.child[i]
      to   == Min(h.sz, from + h.D)
  IN  minChildLoop(h, from, to, i, -1)

RECURSIVE sink(_, _)
sink(h, i) ==
  LET j == minChild(h, i)
  IN  IF j # -1 THEN sink(swap(h, i, j), j) ELSE h

\* variant: swim that stops after one exchange
swim_oneStep(h, i) ==
  IF i > 0 /\ less(h, i, h.parent[i])
  THEN swap(h, i, h.parent[i])
  ELSE h

RECURSIVE swim(_, _)
swim(h, i) ==
  IF i > 0 /\ less(h, i, h.parent[i])
  THEN swim(swap(h, i, h.parent[i]), h.parent[i])
  ELSE h

(* ------------------------- validation helpers -------------------------- *)

\* a call returns normally (kind "ok") with a value, or throws; the error
\* kinds name the messages of the thrown Errors:
\*   "InvalidCapacity"  "maxSize <= 0"
\*   "EmptyQueue"       "Priority queue underflow"
\*   "KeyOutOfBounds"   "Key index out of bounds; received: ..."
\*   "DuplicateKey"     "index already exists; received: ..."
\*   "UnknownKey"       "Index does not exist; received: ..."
\*   "NullValue"        "value cannot be null"
NoValue == <<>>

Return(h, v) == [heap |-> h, kind |-> "ok", val |-> v]

Throw(h, e) == [heap |-> h, kind |-> e, val |-> NoValue]

\* the error isNotEmptyOrThrow raises, "ok" when it returns
isNotEmptyOrThrow(h) == IF isEmpty(h) THEN "EmptyQueue" ELSE "ok"

keyInBoundsOrThrow(h, ki) ==
  IF ki < 0 \/ ki >= h.N THEN "KeyOutOfBounds" ELSE "ok"

keyExistsOrThrow(h, ki) ==
  IF keyInBoundsOrThrow(h, ki) # "ok" THEN keyInBoundsOrThrow(h, ki)
  ELSE IF ~contains(h, ki) THEN "UnknownKey"
  ELSE "ok"

\* variant: a null check that lets null through
valueNotNullOrThrow_never(value) == "ok"

valueNotNullOrThrow(value) == IF value = Null THEN "NullValue" ELSE "ok"

keyExistsAndValueNotNullOrThrow(h, ki, value) ==
  IF keyExistsOrThrow(h, ki) # "ok" THEN keyExistsOrThrow(h, ki)
  ELSE valueNotNullOrThrow(value)

(* --------------------------- public methods ---------------------------- *)

\* new MinIndexedDHeap(degree, maxSize, comparator) as a call: it throws
\* "maxSize <= 0" before anything is allocated, or returns the object
m_construct(degree, maxSize) ==
  IF maxSize <= 0 THEN Throw(NoHeap, "InvalidCapacity")
  ELSE Return(construct(degree, maxSize), NoValue)

m_contains(h, ki) ==
  IF keyInBoundsOrThrow(h, ki) # "ok" THEN Throw(h, keyInBoundsOrThrow(h, ki))
  ELSE Return(h, contains(h, ki))

peekMinKeyIndex(h) ==
  IF isNotEmptyOrThrow(h) # "ok" THEN Throw(h, isNotEmptyOrThrow(h))
  ELSE Return(h, h.im[0])

\* variant: peekMinValue that reads the value of the last occupied slot
peekMinValue_lastSlot(h) ==
  IF isNotEmptyOrThrow(h) # "ok" THEN Throw(h, isNotEmptyOrThrow(h))
  ELSE Return(h, h.values[h.im[h.sz - 1]])

peekMinValue(h) ==
  IF isNotEmptyOrThrow(h) # "ok" THEN Throw(h, isNotEmptyOrThrow(h))
  ELSE Return(h, h.values[h.im[0]])

\* variant: insert that calls swim(this.sz) without the increment
insert_noCount(h, ki, value) ==
  IF keyInBoundsOrThrow(h, ki) # "ok" THEN Throw(h, keyInBoundsOrThrow(h, ki))
  ELSE IF contains(h, ki) THEN Throw(h, "DuplicateKey")
  ELSE IF valueNotNullOrThrow(value) # "ok" THEN Throw(h, "NullValue")
  ELSE LET h1 == [h EXCEPT !.pm[ki] = h.sz]
           h2 == [h1 EXCEPT !.im[h1.sz] = ki]
           h3 == [h2 EXCEPT !.values[ki] = value]
       IN  Return(swim(h3, h3.sz), NoValue)

\* variant: insert without the duplicate check
insert_overwrite(h, ki, value) ==
  IF keyInBoundsOrThrow(h, ki) # "ok" THEN Throw(h, keyInBoundsOrThrow(h, ki))
  ELSE IF valueNotNullOrThrow(value) # "ok" THEN Throw(h, "NullValue")
  ELSE LET h1 == [h EXCEPT !.pm[ki] = h.sz]
           h2 == [h1 EXCEPT !.im[h1.sz] = ki]
           h3 == [h2 EXCEPT !.values[ki] = value]
           h4 == [h3 EXCEPT !.sz = h3.sz + 1]
       IN  Return(swim(h4, h3.sz), NoValue)

\* variant: insert that checks the value after it has claimed the slot
insert_checksLate(h, ki, value) ==
  IF keyInBoundsOrThrow(h, ki) # "ok" THEN Throw(h, keyInBoundsOrThrow(h, ki))
  ELSE IF contains(h, ki) THEN Throw(h, "DuplicateKey")
  ELSE LET h1 == [h EXCEPT !.pm[ki] = h.sz]
           h2 == [h1 EXCEPT !.im[h1.sz] = ki]
           h3 == [h2 EXCEPT !.values[ki] = value]
           h4 == [h3 EXCEPT !.sz = h3.sz + 1]
       IN  IF valueNotNullOrThrow(value) # "ok" THEN Throw(h2, "NullValue")
           ELSE Return(swim(h4, h3.sz), NoValue)

insert(h, ki, value) ==
  IF keyInBoundsOrThrow(h, ki) # "ok" THEN Throw(h, keyInBoundsOrThrow(h, ki))
  ELSE IF contains(h, ki) THEN Throw(h, "DuplicateKey")
  ELSE IF valueNotNullOrThrow(value) # "ok" THEN Throw(h, "NullValue")
  ELSE LET h1 == [h EXCEPT !.pm[ki] = h.sz]
           h2 == [h1 EXCEPT !.im[h1.sz] = ki]
           h3 == [h2 EXCEPT !.values[ki] = value]
           \* swim(this.sz++): the argument is the old sz
           h4 == [h3 EXCEPT !.sz = h3.sz + 1]
       IN  Return(swim(h4, h3.sz), NoValue)

valueOf(h, ki) ==
  IF keyExistsOrThrow(h, ki) # "ok" THEN Throw(h, keyExistsOrThrow(h, ki))
  ELSE Return(h, h.values[ki])

\* variant: delete that leaves the freed slot's im entry as it is
delete_keepsIm(h, ki) ==
  IF keyExistsOrThrow(h, ki) # "ok" THEN Throw(h, keyExistsOrThrow(h, ki))
  ELSE LET i  == h.pm[ki]
           h1 == [h EXCEPT !.sz = h.sz - 1]
           h2 == swap(h1, i, h1.sz)
           h3 == sink(h2, i)
           h4 == swim(h3, i)
           value == h4.values[ki]
           h5 == [h4 EXCEPT !.values[ki] = Null]
           h6 == [h5 EXCEPT !.pm[ki] = Absent]
       IN  Return(h6, value)

\* variant: delete without sink(i)
delete_noSink(h, ki) ==
  IF keyExistsOrThrow(h, ki) # "ok" THEN Throw(h, keyExistsOrThrow(h, ki))
  ELSE LET i  == h.pm[ki]
           h1 == [h EXCEPT !.sz = h.sz - 1]
           h2 == swap(h1, i, h1.sz)
           h4 == swim(h2, i)
           value == h4.values[ki]
           h5 == [h4 EXCEPT !.values[ki] = Null]
           h6 == [h5 EXCEPT !.pm[ki] = Absent]
           h7 == [h6 EXCEPT !.im[h6.sz] = Absent]
       IN  Return(h7, value)

\* variant: delete that reads the value to return after clearing it
delete_readsCleared(h, ki) ==
  IF keyExistsOrThrow(h, ki) # "ok" THEN Throw(h, keyExistsOrThrow(h, ki))
  ELSE LET i  == h.pm[ki]
           h1 == [h EXCEPT !.sz = h.sz - 1]
           h2 == swap(h1, i, h1.sz)
           h3 == sink(h2, i)
           h4 == swim(h3, i)
           h5 == [h4 EXCEPT !.values[ki] = Null]
           value == h5.values[ki]
           h6 == [h5 EXCEPT !.pm[ki] = Absent]
           h7 == [h6 EXCEPT !.im[h6.sz] = Absent]
       IN  Return(h7, value)

delete(h, ki) ==
  IF keyExistsOrThrow(h, ki) # "ok" THEN Throw(h, keyExistsOrThrow(h, ki))
  ELSE LET i  == h.pm[ki]
           \* swap(i, --this.sz)
           h1 == [h EXCEPT !.sz = h.sz - 1]
           h2 == swap(h1, i, h1.sz)
           h3 == sink(h2, i)
           h4 == swim(h3, i)
           value == h4.values[ki]
           h5 == [h4 EXCEPT !.values[ki] = Null]
           h6 == [h5 EXCEPT !.pm[ki] = Absent]
           h7 == [h6 EXCEPT !.im[h6.sz] = Absent]
       IN  Return(h7, value)

\* variant: pollMinKeyIndex that reads the key to return after the delete
pollMinKeyIndex_peekAfter(h) ==
  LET p == peekMinKeyIndex(h)
  IN  IF p.kind # "ok" THEN p
      ELSE LET d == delete(h, p.val)
           IN  IF d.kind # "ok" THEN d
               ELSE [peekMinKeyIndex(d.heap) EXCEPT !.heap = d.heap]

pollMinKeyIndex(h) ==
  LET p == peekMinKeyIndex(h)
  IN  IF p.kind # "ok" THEN p
      ELSE LET d == delete(h, p.val)
           IN  IF d.kind # "ok" THEN d ELSE Return(d.heap, p.val)

pollMinValue(h) ==
  LET p == peekMinValue(h)
  IN  IF p.kind # "ok" THEN p
      ELSE LET q == peekMinKeyIndex(h)
               d == delete(h, q.val)
           IN  IF d.kind # "ok" THEN d ELSE Return(d.heap, p.val)

\* variant: update without swim(i)
update_sinkOnly(h, ki, value) ==
  IF keyExistsAndValueNotNullOrThrow(h, ki, value) # "ok"
  THEN Throw(h, keyExistsAndValueNotNullOrThrow(h, ki, value))
  ELSE LET i  == h.pm[ki]
           oldValue == h.values[ki]
           h1 == [h EXCEPT !.values[ki] = value]
           h2 == sink(h1, i)
       IN  Return(h2, oldValue)

update(h, ki, value) ==
  IF keyExistsAndValueNotNullOrThrow(h, ki, value) # "ok"
  THEN Throw(h, keyExistsAndValueNotNullOrThrow(h, ki, value))
  ELSE LET i  == h.pm[ki]
           oldValue == h.values[ki]
           h1 == [h EXCEPT !.values[ki] = value]
           h2 == sink(h1, i)
           h3 == swim(h2, i)
       IN  Return(h3, oldValue)

\* variant: decrease that applies the value without comparing it
decrease_noCompare(h, ki, value) ==
  IF keyExistsAndValueNotNullOrThrow(h, ki, value) # "ok"
  THEN Throw(h, keyExistsAndValueNotNullOrThrow(h, ki, value))
  ELSE LET h1 == [h EXCEPT !.values[ki] = value]
       IN  Return(swim(h1, h1.pm[ki]), NoValue)

decrease(h, ki, value) ==
  IF keyExistsAndValueNotNullOrThrow(h, ki, value) # "ok"
  THEN Throw(h, keyExistsAndValueNotNullOrThrow(h, ki, value))
  ELSE IF lessValue(value, h.values[ki])
       THEN LET h1 == [h EXCEPT !.values[ki] = value]
            IN  Return(swim(h1, h1.pm[ki]), NoValue)
       ELSE Return(h, NoValue)

\* variant: increase that swims where it should sink
increase_swim(h, ki, value) ==
  IF keyExistsAndValueNotNullOrThrow(h, ki, value) # "ok"
  THEN Throw(h, keyExistsAndValueNotNullOrThrow(h, ki, value))
  ELSE IF lessValue(h.values[ki], value)
       THEN LET h1 == [h EXCEPT !.values[ki] = value]
            IN  Return(swim(h1, h1.pm[ki]), NoValue)
       ELSE Return(h, NoValue)

increase(h, ki, value) ==
  IF keyExistsAndValueNotNullOrThrow(h, ki, value) # "ok"
  THEN Throw(h, keyExistsAndValueNotNullOrThrow(h, ki, value))
  ELSE IF lessValue(h.values[ki], value)
       THEN LET h1 == [h EXCEPT !.values[ki] = value]
            IN  Return(sink(h1, h1.pm[ki]), NoValue)
       ELSE Return(h, NoValue)

\* isMinHeapAt(i): the loop returns false at the first child j of slot i
\* with !less(i, j) or a failing subtree, and true when there is none
RECURSIVE isMinHeapAt(_, _)
isMinHeapAt(h, i) ==
  LET from == h.child[i]
      to == Min(h.sz, from + h.D)
  IN  \A j \in from..(to - 1) : less(h, i, j) /\ isMinHeapAt(h, j)

isMinHeap(h) == Return(h, isMinHeapAt(h, 0))

(* ------------------------- vocabulary of the claims -------------------- *)

Keys(h) == 0..(h.N - 1)

Slots(h) == 0..(h.sz - 1)

ActiveKeys(h) == {k \in Keys(h) : contains(h, k)}

\* the occupied child slots of slot s
ChildSlots(h, s) == {c \in Slots(h) : c >= h.D * s + 1 /\ c <= h.D * s + h.D}

HeapOrdered(h) ==
  \A s \in Slots(h) : \A c \in ChildSlots(h, s) :
    compare(h.values[h.im[s]], h.values[h.im[c]]) <= 0

\* m is a least element of the non-empty set S under the comparator
IsMinOf(m, S) == m \in S /\ \A x \in S : compare(m, x) <= 0

(* ------------------------------- inputs -------------------------------- *)

\* keys a caller passes: every key of the heap and one out of range each side
KeyArgs(h) == (0 - 1)..h.N

\* values a caller passes: the numbers 1..MaxVal and null
ValueArgs == Vals \cup {Null}

\* the object exists (the constructor returned)
Constructed == heap.N > 0

(* ------------------------------- actions ------------------------------- *)

\* the constructor's arguments where they are not recorded
NoArgs == [degree |-> 0, maxSize |-> 0]

\* phase, polled and inserted belong to the insert-then-poll scenario of
\* SpecPoll and args to SpecCtor; in Spec they stay as Init leaves them
Init ==
  /\ \E degree \in 1..MaxDegree, maxSize \in 0..MaxSize :
       heap = m_construct(degree, maxSize).heap
  /\ phase = "any"
  /\ polled = <<>>
  /\ inserted = [v \in Vals |-> 0]
  /\ args = NoArgs
  /\ latest = <<>>
  /\ bheap = NoHeap
  /\ tree = EmptyTree
  /\ otree = EmptyTree
  /\ stored = {}
  /\ run = Idle

\* one call on the object: r is what the method computed; a call that throws
\* leaves the object as the method left it when it threw
Do(r) ==
  /\ Constructed
  /\ heap' = r.heap
  /\ UNCHANGED <<phase, polled, inserted, others>>

Contains(ki) == Do(m_contains(heap, ki))

PeekMinKeyIndex == Do(peekMinKeyIndex(heap))

PollMinKeyIndex == Do(pollMinKeyIndex(heap))

PeekMinValue == Do(peekMinValue(heap))

PollMinValue == Do(pollMinValue(heap))

Insert(ki, value) == Do(insert(heap, ki, value))

ValueOf(ki) == Do(valueOf(heap, ki))

Delete(ki) == Do(delete(heap, ki))

Update(ki, value) == Do(update(heap, ki, value))

Decrease(ki, value) == Do(decrease(heap, ki, value))

Increase(ki, value) == Do(increase(heap, ki, value))

IsMinHeap == Do(isMinHeap(heap))

Next ==
  \/ \E ki \in KeyArgs(heap) : Contains(ki)
  \/ PeekMinKeyIndex
  \/ PollMinKeyIndex
  \/ PeekMinValue
  \/ PollMinValue
  \/ \E ki \in KeyArgs(heap), value \in ValueArgs : Insert(ki, value)
  \/ \E ki \in KeyArgs(heap) : ValueOf(ki)
  \/ \E ki \in KeyArgs(heap) : Delete(ki)
  \/ \E ki \in KeyArgs(heap), value \in ValueArgs : Update(ki, value)
  \/ \E ki \in KeyArgs(heap), value \in ValueArgs : Decrease(ki, value)
  \/ \E ki \in KeyArgs(heap), value \in ValueArgs : Increase(ki, value)
  \/ IsMinHeap

Spec == Init /\ [][Next]_vars

(* -------------------------------- claims ------------------------------- *)

\* C1: heap order -- in every state reached by any sequence of calls, the
\* value of the key at an occupied slot is less than or equal to (under the
\* comparator) the value of the key at each of its occupied child slots.
C1_HeapOrder == HeapOrdered(heap)

\* a heap with a slot on the third level whose keys have all left the slots
\* they were inserted at in key order, with a parent strictly below a child
\* and a parent equal to a child
C1_Witness ==
  /\ Constructed
  /\ size(heap) = heap.D + 2
  /\ \A k \in ActiveKeys(heap) : heap.pm[k] # k
  /\ \E s \in Slots(heap) : \E c \in ChildSlots(heap, s) :
       compare(heap.values[heap.im[s]], heap.values[heap.im[c]]) < 0
  /\ \E s \in Slots(heap) : \E c \in ChildSlots(heap, s) :
       compare(heap.values[heap.im[s]], heap.values[heap.im[c]]) = 0

\* the values of the active keys of h
ActiveValues(h) == {h.values[k] : k \in ActiveKeys(h)}

\* pm, im, values and size of g and h are identical
SameContents(g, h) ==
  /\ g.pm = h.pm
  /\ g.im = h.im
  /\ g.values = h.values
  /\ size(g) = size(h)

\* peekMinValue and peekMinKeyIndex on h identify a least element of S
PeeksIdentifyMinOf(h, S) ==
  /\ peekMinValue(h).kind = "ok"
  /\ IsMinOf(peekMinValue(h).val, S)
  /\ peekMinKeyIndex(h).kind = "ok"
  /\ peekMinKeyIndex(h).val \in ActiveKeys(h)
  /\ h.values[peekMinKeyIndex(h).val] = peekMinValue(h).val

\* C2: bijection -- after every public operation, every active key k has
\* 0 <= pm[k] < size and im[pm[k]] = k, and every slot s < size holds an
\* active key im[s] with pm[im[s]] = s (no two active keys share a slot).
C2_Bijection ==
  /\ \A k \in ActiveKeys(heap) :
       /\ 0 <= heap.pm[k] /\ heap.pm[k] < size(heap)
       /\ heap.im[heap.pm[k]] = k
  /\ \A s \in Slots(heap) :
       /\ heap.im[s] \in ActiveKeys(heap)
       /\ heap.pm[heap.im[s]] = s
  /\ \A j, k \in ActiveKeys(heap) : j # k => heap.pm[j] # heap.pm[k]

\* a full heap in which no key sits in the slot of its own number: the
\* exchanges of swim and sink have moved every key
C2_Witness ==
  /\ Constructed
  /\ size(heap) = heap.N
  /\ \A k \in Keys(heap) : heap.pm[k] # k

\* C3: size accounting -- size() is the number of keys k in [0,N) with
\* contains(k) true (0 for a new heap, never more than N); a successful insert
\* adds exactly 1, a successful delete, pollMinKeyIndex or pollMinValue takes
\* exactly 1 away, and update, increase and decrease leave it unchanged.
C3_SizeAccounting ==
  /\ size(heap) = Cardinality({k \in Keys(heap) : m_contains(heap, k).val})
  /\ size(heap) <= heap.N
  /\ \A degree \in 1..MaxDegree, maxSize \in 1..MaxSize :
       size(construct(degree, maxSize)) = 0
  /\ \A ki \in KeyArgs(heap) :
       LET d == delete(heap, ki)
       IN  d.kind = "ok" => size(d.heap) = size(heap) - 1
  /\ \A ki \in KeyArgs(heap), value \in ValueArgs :
       LET i  == insert(heap, ki, value)
           u  == update(heap, ki, value)
           up == increase(heap, ki, value)
           dn == decrease(heap, ki, value)
       IN  /\ i.kind = "ok" => size(i.heap) = size(heap) + 1
           /\ u.kind = "ok" => size(u.heap) = size(heap)
           /\ up.kind = "ok" => size(up.heap) = size(heap)
           /\ dn.kind = "ok" => size(dn.heap) = size(heap)
  /\ LET pk == pollMinKeyIndex(heap)
         pv == pollMinValue(heap)
     IN  /\ pk.kind = "ok" => size(pk.heap) = size(heap) - 1
         /\ pv.kind = "ok" => size(pv.heap) = size(heap) - 1

\* a heap holding some but not all of its keys, where an insert, a delete
\* and a poll all succeed
C3_Witness ==
  /\ Constructed
  /\ size(heap) = 2
  /\ \E ki \in Keys(heap), kd \in Keys(heap), value \in Vals :
       /\ insert(heap, ki, value).kind = "ok"
       /\ size(insert(heap, ki, value).heap) = 3
       /\ delete(heap, kd).kind = "ok"
       /\ size(delete(heap, kd).heap) = 1
  /\ pollMinValue(heap).kind = "ok"

\* C4: on a non-empty heap peekMinValue() returns the least value of the
\* active keys, peekMinKeyIndex() returns an active key holding that value,
\* and neither call changes pm, im, values or size.
C4_PeekMin ==
  (Constructed /\ ~isEmpty(heap)) =>
    /\ PeeksIdentifyMinOf(heap, ActiveValues(heap))
    /\ SameContents(peekMinValue(heap).heap, heap)
    /\ SameContents(peekMinKeyIndex(heap).heap, heap)

\* a heap of at least three keys with different values whose minimum is
\* neither key 0 nor the key of the last slot
C4_Witness ==
  /\ Constructed
  /\ size(heap) >= 3
  /\ Cardinality(ActiveValues(heap)) >= 2
  /\ peekMinKeyIndex(heap).val # 0
  /\ peekMinValue(heap).val # heap.values[heap.im[size(heap) - 1]]
  /\ contains(heap, 0) /\ peekMinValue(heap).val # heap.values[0]

\* C6: on a non-empty heap pollMinKeyIndex() returns the key peekMinKeyIndex()
\* returned before the call and pollMinValue() returns the value
\* peekMinValue() returned before the call; either way the key that was at
\* slot 0 is deleted and every other active key stays active.
C6_PollReturnsPeek ==
  (Constructed /\ ~isEmpty(heap)) =>
    LET pk == pollMinKeyIndex(heap)
        pv == pollMinValue(heap)
    IN  /\ pk.kind = "ok"
        /\ pk.val = peekMinKeyIndex(heap).val
        /\ pv.kind = "ok"
        /\ pv.val = peekMinValue(heap).val
        /\ \A after \in {pk.heap, pv.heap} :
             /\ ~m_contains(after, heap.im[0]).val
             /\ ActiveKeys(after) = ActiveKeys(heap) \ {heap.im[0]}

\* a poll on a heap of at least three keys after which a different value
\* is the minimum
C6_Witness ==
  /\ Constructed
  /\ size(heap) >= 3
  /\ pollMinValue(heap).kind = "ok"
  /\ peekMinValue(pollMinValue(heap).heap).val # pollMinValue(heap).val
  /\ pollMinKeyIndex(heap).val # 0

\* C7: delete(k) of an active key k, at any slot of any reachable heap,
\* returns the value k had before the call; afterwards contains(k) is false,
\* k can be inserted again without a duplicate-key error, every other active
\* key is still active, and peekMinValue() is the least remaining value.
C7_Delete ==
  \A k \in ActiveKeys(heap) :
    LET r == delete(heap, k)
        rest == ActiveKeys(heap) \ {k}
    IN  /\ r.kind = "ok"
        /\ r.val = heap.values[k]
        /\ m_contains(r.heap, k).kind = "ok"
        /\ ~m_contains(r.heap, k).val
        /\ \A value \in Vals : insert(r.heap, k, value).kind = "ok"
        /\ ActiveKeys(r.heap) = rest
        /\ rest # {} =>
             /\ peekMinValue(r.heap).kind = "ok"
             /\ IsMinOf(peekMinValue(r.heap).val, {heap.values[j] : j \in rest})

\* deletes at the root, at an inner slot and at the last slot of a full
\* heap; the delete of the root changes the minimum
C7_Witness ==
  /\ Constructed
  /\ size(heap) = heap.N
  /\ \A s \in {0, 1, size(heap) - 1} : delete(heap, heap.im[s]).kind = "ok"
  /\ peekMinValue(delete(heap, heap.im[0]).heap).val # heap.values[heap.im[0]]
  /\ delete(heap, heap.im[1]).heap.im[1] = heap.im[size(heap) - 1]

\* the values of the active keys once key k holds value
ValuesWith(h, k, value) == {[h.values EXCEPT ![k] = value][j] : j \in ActiveKeys(h)}

\* C8: update(k, v) of an active key k with a non-null v stores v as k's value
\* whether v is smaller than, equal to or larger than the old value, returns
\* the old value, keeps the set of active keys and the size, and leaves the
\* heap ordered, so that the peeks identify the new minimum.
C8_Update ==
  \A k \in ActiveKeys(heap), value \in Vals :
    LET r == update(heap, k, value)
    IN  /\ r.kind = "ok"
        /\ r.heap.values[k] = value
        /\ r.val = heap.values[k]
        /\ ActiveKeys(r.heap) = ActiveKeys(heap)
        /\ size(r.heap) = size(heap)
        /\ HeapOrdered(r.heap)
        /\ PeeksIdentifyMinOf(r.heap, ValuesWith(heap, k, value))

\* a heap where an update with a larger value sends the root key down to the
\* third level, an update with a smaller value is made on another key, and
\* an update with the same value is made
C8_Witness ==
  /\ Constructed
  /\ size(heap) = heap.D + 2
  /\ \E value \in Vals :
       /\ compare(value, heap.values[heap.im[0]]) > 0
       /\ update(heap, heap.im[0], value).heap.pm[heap.im[0]] = heap.D + 1
       /\ update(heap, heap.im[0], value).val = heap.values[heap.im[0]]
  /\ \E k \in ActiveKeys(heap), value \in Vals :
       /\ compare(value, heap.values[k]) < 0
       /\ update(heap, k, value).heap.values[k] = value
  /\ \E k \in ActiveKeys(heap) : update(heap, k, heap.values[k]).kind = "ok"

\* C9: decrease(k, v) with v not less than k's value, and increase(k, v) with
\* v not greater than k's value, are no-ops on an active key k: no error, and
\* pm, im, values and size are the same after the call as before it.
C9_NoOp ==
  \A k \in ActiveKeys(heap), value \in Vals :
    /\ ~(compare(value, heap.values[k]) < 0) =>
         LET r == decrease(heap, k, value)
         IN  r.kind = "ok" /\ SameContents(r.heap, heap)
    /\ ~(compare(value, heap.values[k]) > 0) =>
         LET r == increase(heap, k, value)
         IN  r.kind = "ok" /\ SameContents(r.heap, heap)

\* a heap where decrease is called with an equal and with a larger value on
\* a key below the root, and increase with an equal and with a smaller value
\* on the root key: applying the value would reorder the heap
C9_Witness ==
  /\ Constructed
  /\ size(heap) >= 3
  /\ \E k \in ActiveKeys(heap), value \in Vals :
       /\ compare(value, heap.values[k]) > 0
       /\ decrease(heap, k, value).kind = "ok"
       /\ update(heap, k, value).heap.im # heap.im
  /\ \E k \in ActiveKeys(heap), value \in Vals :
       /\ compare(value, heap.values[k]) < 0
       /\ increase(heap, k, value).kind = "ok"
       /\ update(heap, k, value).heap.im # heap.im
  /\ \E k \in ActiveKeys(heap) :
       /\ decrease(heap, k, heap.values[k]).kind = "ok"
       /\ increase(heap, k, heap.values[k]).kind = "ok"

\* C10: decrease(k, v) with v strictly less than k's value, and increase(k, v)
\* with v strictly greater, store v as k's value (valueOf(k) = v afterwards)
\* and restore heap order by their one pass (swim for decrease, sink for
\* increase), so that the peeks afterwards identify the minimum of all
\* active values.
C10_DecreaseIncrease ==
  \A k \in ActiveKeys(heap), value \in Vals :
    /\ compare(value, heap.values[k]) < 0 =>
         LET r == decrease(heap, k, value)
         IN  /\ r.kind = "ok"
             /\ valueOf(r.heap, k).kind = "ok"
             /\ valueOf(r.heap, k).val = value
             /\ HeapOrdered(r.heap)
             /\ PeeksIdentifyMinOf(r.heap, ValuesWith(heap, k, value))
    /\ compare(value, heap.values[k]) > 0 =>
         LET r == increase(heap, k, value)
         IN  /\ r.kind = "ok"
             /\ valueOf(r.heap, k).kind = "ok"
             /\ valueOf(r.heap, k).val = value
             /\ HeapOrdered(r.heap)
             /\ PeeksIdentifyMinOf(r.heap, ValuesWith(heap, k, value))

\* a heap where an increase takes the root key down to the third level and
\* a decrease to a strictly smaller value is made on another key
C10_Witness ==
  /\ Constructed
  /\ size(heap) = heap.D + 2
  /\ \E value \in Vals :
       /\ compare(value, heap.values[heap.im[0]]) > 0
       /\ increase(heap, heap.im[0], value).heap.im[heap.D + 1] = heap.im[0]
  /\ \E k \in ActiveKeys(heap), value \in Vals :
       /\ compare(value, heap.values[k]) < 0
       /\ decrease(heap, k, value).heap.values[k] = value

\* a heap where a decrease takes the key of the third-level slot up to the
\* root
C10_WitnessSwim ==
  /\ Constructed
  /\ size(heap) = heap.D + 2
  /\ \E value \in Vals :
       /\ compare(value, heap.values[heap.im[heap.D + 1]]) < 0
       /\ decrease(heap, heap.im[heap.D + 1], value).heap.im[0] = heap.im[heap.D + 1]

(* ----------------------- insert, then poll it all ---------------------- *)

\* The scenario of the tests "should pollMinValue removes elements in order"
\* and "should basic insert and poll": distinct keys are inserted with any
\* values in any order (phase "insert"), then pollMinValue() is called once
\* per inserted key (phase "poll").  polled is the sequence of values the
\* polls returned, inserted counts how often each value was inserted, and a
\* call that throws ends the scenario in phase "failed".
InitPoll ==
  /\ \E degree \in 1..MaxDegree, maxSize \in 1..MaxSize :
       heap = construct(degree, maxSize)
  /\ phase = "insert"
  /\ polled = <<>>
  /\ inserted = [v \in Vals |-> 0]
  /\ args = NoArgs
  /\ latest = <<>>
  /\ bheap = NoHeap
  /\ tree = EmptyTree
  /\ otree = EmptyTree
  /\ stored = {}
  /\ run = Idle

InsertDistinct(ki, value) ==
  /\ phase = "insert"
  /\ ~contains(heap, ki)
  /\ LET r == insert(heap, ki, value)
     IN  /\ heap' = r.heap
         /\ phase' = IF r.kind = "ok" THEN "insert" ELSE "failed"
         /\ inserted' = IF r.kind = "ok"
                        THEN [inserted EXCEPT ![value] = inserted[value] + 1]
                        ELSE inserted
  /\ UNCHANGED <<polled, others>>

PollOne ==
  /\ phase \in {"insert", "poll"}
  /\ ~isEmpty(heap)
  /\ LET r == pollMinValue(heap)
     IN  /\ heap' = r.heap
         /\ phase' = IF r.kind = "ok" THEN "poll" ELSE "failed"
         /\ polled' = IF r.kind = "ok" THEN Append(polled, r.val) ELSE polled
  /\ UNCHANGED <<inserted, others>>

NextPoll ==
  \/ \E ki \in Keys(heap), value \in Vals : InsertDistinct(ki, value)
  \/ PollOne

SpecPoll == InitPoll /\ [][NextPoll]_vars

\* how often value v occurs in the sequence q
Occurrences(q, v) == Cardinality({i \in DOMAIN q : q[i] = v})

\* C5: poll order -- after distinct keys were inserted with any values in any
\* order, one pollMinValue() per inserted key returns the inserted values in
\* non-decreasing comparator order, a sorted permutation of what was
\* inserted, and leaves the heap empty.
C5_PollOrder ==
  /\ phase # "failed"
  /\ \A i, j \in DOMAIN polled : i < j => compare(polled[i], polled[j]) <= 0
  /\ \A v \in Vals : Occurrences(polled, v) <= inserted[v]
  /\ (phase = "poll" /\ isEmpty(heap)) =>
       /\ size(heap) = 0
       /\ \A v \in Vals : Occurrences(polled, v) = inserted[v]

\* four values, not all equal, have been inserted and all polled
C5_Witness ==
  /\ phase = "poll"
  /\ isEmpty(heap)
  /\ Len(polled) = 4
  /\ polled[1] # polled[4]
  /\ inserted[1] >= 2 /\ inserted[MaxVal] >= 1


(* --------------------------- errors and bounds ------------------------- *)

\* C11: insert(k, v) of a key k that is already active raises the
\* duplicate-key error and changes neither size nor the value stored for k
\* (nor pm, im), whatever v is, null included.
C11_DuplicateInsert ==
  \A k \in ActiveKeys(heap), value \in ValueArgs :
    LET r == insert(heap, k, value)
    IN  /\ r.kind = "DuplicateKey"
        /\ size(r.heap) = size(heap)
        /\ r.heap.values[k] = heap.values[k]
        /\ SameContents(r.heap, heap)

\* a heap of two keys or more where a duplicate insert is tried on a key
\* below the root with a value smaller than the root's, and with null
C11_Witness ==
  /\ Constructed
  /\ size(heap) >= 2
  /\ \E k \in ActiveKeys(heap), value \in Vals :
       /\ heap.pm[k] > 0
       /\ compare(value, heap.values[heap.im[0]]) < 0
       /\ insert(heap, k, value).kind = "DuplicateKey"
       /\ insert(heap, k, Null).kind = "DuplicateKey"


\* the keys of KeyArgs that are out of [0, N), and those in range not active
OutOfBoundsKeys(h) == {ki \in KeyArgs(h) : ki < 0 \/ ki >= h.N}

InactiveKeys(h) == Keys(h) \ ActiveKeys(h)

\* the parts of C12 that hold as stated: the constructor, the empty heap,
\* keys out of bounds, in-range keys that are not active
ErrorsOfConstructorEmptyAndKeys ==
  /\ \A degree \in 1..MaxDegree, maxSize \in (0 - 1)..0 :
       m_construct(degree, maxSize).kind = "InvalidCapacity"
  /\ Constructed =>
       /\ isEmpty(heap) =>
            /\ peekMinKeyIndex(heap).kind = "EmptyQueue"
            /\ peekMinValue(heap).kind = "EmptyQueue"
            /\ pollMinKeyIndex(heap).kind = "EmptyQueue"
            /\ pollMinValue(heap).kind = "EmptyQueue"
       /\ \A ki \in OutOfBoundsKeys(heap) :
            /\ m_contains(heap, ki).kind = "KeyOutOfBounds"
            /\ valueOf(heap, ki).kind = "KeyOutOfBounds"
            /\ delete(heap, ki).kind = "KeyOutOfBounds"
            /\ \A value \in ValueArgs :
                 /\ insert(heap, ki, value).kind = "KeyOutOfBounds"
                 /\ update(heap, ki, value).kind = "KeyOutOfBounds"
                 /\ increase(heap, ki, value).kind = "KeyOutOfBounds"
                 /\ decrease(heap, ki, value).kind = "KeyOutOfBounds"
       /\ \A ki \in InactiveKeys(heap) :
            /\ valueOf(heap, ki).kind = "UnknownKey"
            /\ delete(heap, ki).kind = "UnknownKey"
            /\ \A value \in ValueArgs :
                 /\ update(heap, ki, value).kind = "UnknownKey"
                 /\ increase(heap, ki, value).kind = "UnknownKey"
                 /\ decrease(heap, ki, value).kind = "UnknownKey"

\* C12 as stated: precondition violations are reported as errors --
\* construction with maxSize <= 0 fails with InvalidCapacity; the peeks and
\* polls on an empty heap fail with EmptyQueue; every keyed method with a key
\* out of [0, N) fails with KeyOutOfBounds; delete, update, increase,
\* decrease, valueOf on an in-range inactive key fail with UnknownKey; and
\* insert, update, increase, decrease with a null value fail with NullValue
\* (whatever the key).
C12_Original ==
  /\ ErrorsOfConstructorEmptyAndKeys
  /\ Constructed =>
       \A ki \in KeyArgs(heap) :
         /\ insert(heap, ki, Null).kind = "NullValue"
         /\ update(heap, ki, Null).kind = "NullValue"
         /\ increase(heap, ki, Null).kind = "NullValue"
         /\ decrease(heap, ki, Null).kind = "NullValue"

\* C12 (amended): as C12, except that a null value is reported as NullValue
\* when the key passes the checks made before the null check: insert with
\* an in-range key that is not active, and update, increase, decrease with
\* an active key.  (With a key out of bounds the call fails with
\* KeyOutOfBounds, insert of an active key with DuplicateKey, update,
\* increase, decrease of an inactive key with UnknownKey, null or not.)
C12_Errors ==
  /\ ErrorsOfConstructorEmptyAndKeys
  /\ Constructed =>
       /\ \A ki \in InactiveKeys(heap) :
            insert(heap, ki, Null).kind = "NullValue"
       /\ \A ki \in ActiveKeys(heap) :
            /\ update(heap, ki, Null).kind = "NullValue"
            /\ increase(heap, ki, Null).kind = "NullValue"
            /\ decrease(heap, ki, Null).kind = "NullValue"

\* a heap with active and inactive keys, where a null value meets an active
\* key, an inactive key and a key out of bounds
C12_Witness ==
  /\ Constructed
  /\ size(heap) >= 2
  /\ \E k \in ActiveKeys(heap), j \in InactiveKeys(heap) :
       /\ update(heap, k, Null).kind = "NullValue"
       /\ insert(heap, j, Null).kind = "NullValue"
       /\ insert(heap, k, Null).kind = "DuplicateKey"
       /\ update(heap, j, Null).kind = "UnknownKey"
       /\ delete(heap, j).kind = "UnknownKey"
  /\ insert(heap, heap.N, Null).kind = "KeyOutOfBounds"
  /\ m_contains(heap, 0 - 1).kind = "KeyOutOfBounds"

\* the empty heap, where the peeks and polls throw
C12_WitnessEmpty ==
  /\ Constructed
  /\ isEmpty(heap)
  /\ peekMinValue(heap).kind = "EmptyQueue"


\* The constructor with its arguments kept: args is the pair the constructor
\* was called with, and the keyed methods are then called with keys in and
\* out of range.
InitCtor ==
  /\ \E degree \in 1..MaxDegree, maxSize \in 0..MaxSize :
       /\ args = [degree |-> degree, maxSize |-> maxSize]
       /\ heap = m_construct(degree, maxSize).heap
  /\ phase = "any"
  /\ polled = <<>>
  /\ inserted = [v \in Vals |-> 0]
  /\ latest = <<>>
  /\ bheap = NoHeap
  /\ tree = EmptyTree
  /\ otree = EmptyTree
  /\ stored = {}
  /\ run = Idle

NextCtor ==
  \/ \E ki \in KeyArgs(heap) : Contains(ki)
  \/ \E ki \in KeyArgs(heap), value \in ValueArgs : Insert(ki, value)
  \/ \E ki \in KeyArgs(heap) : ValueOf(ki)
  \/ \E ki \in KeyArgs(heap) : Delete(ki)

SpecCtor == InitCtor /\ [][NextCtor]_vars

\* the keys the keyed methods accept without the out-of-bounds error
AcceptedKeys(h) ==
  {ki \in KeyArgs(h) :
     /\ m_contains(h, ki).kind # "KeyOutOfBounds"
     /\ valueOf(h, ki).kind # "KeyOutOfBounds"
     /\ delete(h, ki).kind # "KeyOutOfBounds"
     /\ \A value \in ValueArgs : insert(h, ki, value).kind # "KeyOutOfBounds"}

\* C13 as stated: for every constructor call (degree, maxSize) with
\* maxSize > 0, degree < 2 included, D is max(2, degree) and N is
\* max(degree + 1, maxSize); exactly the keys 0 <= k < max(degree + 1,
\* maxSize) are accepted without KeyOutOfBounds; N >= D + 1 and N >= maxSize.
C13_Original ==
  Constructed =>
    LET n == Max(args.degree + 1, args.maxSize)
    IN  /\ heap.D = Max(2, args.degree)
        /\ heap.N = n
        /\ AcceptedKeys(heap) = 0..(n - 1)
        /\ heap.N >= heap.D + 1
        /\ heap.N >= args.maxSize

\* C13 (amended): for every constructor call (degree, maxSize) with
\* maxSize > 0, degree < 2 included, D is max(2, degree) and N is
\* max(D + 1, maxSize), the effective degree plus one and not the argument
\* plus one; exactly the keys 0 <= k < N are accepted without
\* KeyOutOfBounds; N >= D + 1 and N >= maxSize.
C13_Capacity ==
  Constructed =>
    LET d == Max(2, args.degree)
        n == Max(d + 1, args.maxSize)
    IN  /\ heap.D = d
        /\ heap.N = n
        /\ AcceptedKeys(heap) = 0..(n - 1)
        /\ heap.N >= heap.D + 1
        /\ heap.N >= args.maxSize

\* a heap built with degree 1 and maxSize < 3 that holds key 2, the key the
\* two formulas for N disagree about
C13_Witness ==
  /\ Constructed
  /\ args.degree < 2
  /\ args.maxSize < 3
  /\ heap.N = 3
  /\ contains(heap, 2)
  /\ valueOf(heap, 2).kind = "ok"
  /\ valueOf(heap, 3).kind = "KeyOutOfBounds"

\* a heap built with maxSize above D + 1
C13_WitnessLarge ==
  /\ Constructed
  /\ args.maxSize > args.degree + 1
  /\ args.degree >= 2
  /\ heap.N = args.maxSize
  /\ contains(heap, heap.N - 1)


(* ------------------------------ isMinHeap ------------------------------ *)

\* C14: isMinHeap() returns true exactly when, for every slot s and every
\* child slot c in [firstChild(s), min(size, firstChild(s) + D)), the value
\* at c compares greater than or equal to the value at s; it returns false
\* exactly when some in-range child compares strictly less than its parent.
C14_IsMinHeap ==
  Constructed =>
    LET r == isMinHeap(heap)
        someChildLess ==
          \E s \in Slots(heap) : \E c \in ChildSlots(heap, s) :
            compare(heap.values[heap.im[c]], heap.values[heap.im[s]]) < 0
    IN  /\ r.kind = "ok"
        /\ r.val = TRUE <=> HeapOrdered(heap)
        /\ r.val = FALSE <=> someChildLess

\* what isMinHeap() computes: every in-range child is strictly greater than
\* its parent
C14_StrictOrder ==
  Constructed =>
    (isMinHeap(heap).val <=>
       \A s \in Slots(heap) : \A c \in ChildSlots(heap, s) :
         compare(heap.values[heap.im[s]], heap.values[heap.im[c]]) < 0)

\* C15: for a heap of degree 3 and for the binary heap (degree 2): after
\* inserting any values, which may repeat, under distinct keys, isMinHeap()
\* returns true, and it still returns true after a subsequent pollMinValue().
C15_MinHeapAfterInsertAndPoll ==
  (/\ heap.D \in {2, 3}
   /\ phase \in {"insert", "poll"}
   /\ Len(polled) <= 1)
    => isMinHeap(heap).val = TRUE

\* the same without repeated values: what the tests exercise
C15_DistinctValues ==
  (/\ heap.D \in {2, 3}
   /\ phase \in {"insert", "poll"}
   /\ Len(polled) <= 1
   /\ \A v \in Vals : inserted[v] <= 1)
    => isMinHeap(heap).val = TRUE


(* ----------------------- the binary specialization --------------------- *)

\* A MinIndexedDHeap of degree 2 (heap) and a MinIndexedBinaryHeap (bheap)
\* built with the same maxSize and comparator, and every call made on both
\* with the same arguments.
InitPair ==
  /\ \E maxSize \in 1..MaxSize :
       /\ heap = construct(2, maxSize)
       /\ bheap = constructBinary(maxSize)
  /\ phase = "any"
  /\ polled = <<>>
  /\ inserted = [v \in Vals |-> 0]
  /\ args = NoArgs
  /\ latest = <<>>
  /\ tree = EmptyTree
  /\ otree = EmptyTree
  /\ stored = {}
  /\ run = Idle

\* one call on each object: r is the call on heap, rb the call on bheap
DoBoth(r, rb) ==
  /\ heap' = r.heap
  /\ bheap' = rb.heap
  /\ UNCHANGED <<phase, polled, inserted, args, latest, tree, otree, stored, run>>

BothContains(ki) == DoBoth(m_contains(heap, ki), m_contains(bheap, ki))

BothPeekMinKeyIndex == DoBoth(peekMinKeyIndex(heap), peekMinKeyIndex(bheap))

BothPollMinKeyIndex == DoBoth(pollMinKeyIndex(heap), pollMinKeyIndex(bheap))

BothPeekMinValue == DoBoth(peekMinValue(heap), peekMinValue(bheap))

BothPollMinValue == DoBoth(pollMinValue(heap), pollMinValue(bheap))

BothInsert(ki, value) ==
  DoBoth(insert(heap, ki, value), insert(bheap, ki, value))

BothValueOf(ki) == DoBoth(valueOf(heap, ki), valueOf(bheap, ki))

BothDelete(ki) == DoBoth(delete(heap, ki), delete(bheap, ki))

BothUpdate(ki, value) ==
  DoBoth(update(heap, ki, value), update(bheap, ki, value))

BothDecrease(ki, value) ==
  DoBoth(decrease(heap, ki, value), decrease(bheap, ki, value))

BothIncrease(ki, value) ==
  DoBoth(increase(heap, ki, value), increase(bheap, ki, value))

NextPair ==
  \/ \E ki \in KeyArgs(heap) : BothContains(ki)
  \/ BothPeekMinKeyIndex
  \/ BothPollMinKeyIndex
  \/ BothPeekMinValue
  \/ BothPollMinValue
  \/ \E ki \in KeyArgs(heap), value \in ValueArgs : BothInsert(ki, value)
  \/ \E ki \in KeyArgs(heap) : BothValueOf(ki)
  \/ \E ki \in KeyArgs(heap) : BothDelete(ki)
  \/ \E ki \in KeyArgs(heap), value \in ValueArgs : BothUpdate(ki, value)
  \/ \E ki \in KeyArgs(heap), value \in ValueArgs : BothDecrease(ki, value)
  \/ \E ki \in KeyArgs(heap), value \in ValueArgs : BothIncrease(ki, value)

SpecPair == InitPair /\ [][NextPair]_vars

\* the two calls ended the same way: both returned the same value or both
\* threw the same error
SameResult(r, rb) ==
  /\ r.kind = rb.kind
  /\ r.kind = "ok" => r.val = rb.val

\* C16: a MinIndexedDHeap of degree 2 and a MinIndexedBinaryHeap with the
\* same maxSize and comparator, driven by the same calls, give the same
\* peekMinKeyIndex() and peekMinValue() results after every step, and hold
\* the same pm, im, values and size.
C16_BinaryEquivalence ==
  /\ SameResult(peekMinKeyIndex(heap), peekMinKeyIndex(bheap))
  /\ SameResult(peekMinValue(heap), peekMinValue(bheap))
  /\ heap.pm = bheap.pm
  /\ heap.im = bheap.im
  /\ heap.values = bheap.values
  /\ size(heap) = size(bheap)

\* both heaps hold three keys, moved from their insertion slots, and the
\* peeks return a key and a value
C16_Witness ==
  /\ size(heap) >= 3
  /\ size(bheap) >= 3
  /\ \E k \in ActiveKeys(bheap) : bheap.pm[k] # k
  /\ peekMinKeyIndex(bheap).kind = "ok"
  /\ peekMinValue(heap).kind = "ok"
  /\ \E s \in Slots(bheap) :
       compare(bheap.values[bheap.im[0]], bheap.values[bheap.im[s]]) < 0


(* ======================================================================= *)
(* The AVL trees: AVLTreeRecursive (avl-tree-recursive.ts) and              *)
(* AVLTreeRecursiveOptimized (avl-tree-recursive-optimized.ts).             *)
(*                                                                         *)
(* A node is a record with the fields of AVLNode, null is NullNode, and a  *)
(* tree object is a record with the fields root and nodeCount.  The        *)
(* operators of AVLTreeRecursive carry the prefix avl_, those of           *)
(* AVLTreeRecursiveOptimized the prefix opt_; a private method _m is       *)
(* avl__m or opt__m.  A method that assigns to the fields of a node        *)
(* returns the node with the fields changed.                               *)
(* ======================================================================= *)

\* the values stored are NumberValue(1) .. NumberValue(MaxElem)
MaxElem == 6

Elems == 1..MaxElem

\* NumberValue.compareTo of the tests: this.val - other.val
compareTo(this, other) == this - other

\* new AVLNode(value)
AVLNode(value) ==
  [bf |-> 0, value |-> value, height |-> 0,
   left |-> NullNode, right |-> NullNode]

\* what a public method of a tree computes: the object after the call and
\* the value returned
TreeReturn(t, v) == [tree |-> t, val |-> v]

(* --------------------------- AVLTreeRecursive -------------------------- *)

avl_height(t) == IF t.root = NullNode THEN 0 ELSE t.root.height

avl_size(t) == t.nodeCount

avl_isEmpty(t) == avl_size(t) = 0

RECURSIVE avl__contains(_, _)
avl__contains(node, value) ==
  IF node = NullNode THEN FALSE
  ELSE LET cmp == compareTo(value, node.value)
       IN  IF cmp < 0 THEN avl__contains(node.left, value)
           ELSE IF cmp > 0 THEN avl__contains(node.right, value)
           ELSE TRUE

avl_contains(t, value) == avl__contains(t.root, value)

avl_update(node) ==
  LET leftHeight == IF node.left = NullNode THEN -1 ELSE node.left.height
      rightHeight == IF node.right = NullNode THEN -1 ELSE node.right.height
  IN  [node EXCEPT !.height = 1 + Max(leftHeight, rightHeight),
                   !.bf = rightHeight - leftHeight]

avl_leftRotation(node) ==
  LET newParent == node.right
      lowered == avl_update([node EXCEPT !.right = newParent.left])
  IN  avl_update([newParent EXCEPT !.left = lowered])

avl_rightRotation(node) ==
  LET newParent == node.left
      lowered == avl_update([node EXCEPT !.left = newParent.right])
  IN  avl_update([newParent EXCEPT !.right = lowered])

avl_leftLeftCase(node) == avl_rightRotation(node)

avl_leftRightCase(node) ==
  avl_leftLeftCase([node EXCEPT !.left = avl_leftRotation(node.left)])

avl_rightRightCase(node) == avl_leftRotation(node)

avl_rightLeftCase(node) ==
  avl_rightRightCase([node EXCEPT !.right = avl_rightRotation(node.right)])

avl_balance(node) ==
  IF node.bf = -2
  THEN IF node.left.bf <= 0 THEN avl_leftLeftCase(node)
       ELSE avl_leftRightCase(node)
  ELSE IF node.bf = 2
  THEN IF node.right.bf >= 0 THEN avl_rightRightCase(node)
       ELSE avl_rightLeftCase(node)
  ELSE node

\* variant: a smaller value goes right
RECURSIVE avl__insert_mirrored(_, _)
avl__insert_mirrored(node, value) ==
  IF node = NullNode THEN AVLNode(value)
  ELSE LET cmp == compareTo(value, node.value)
           linked ==
             IF cmp < 0
             THEN [node EXCEPT !.right = avl__insert_mirrored(node.right, value)]
             ELSE [node EXCEPT !.left = avl__insert_mirrored(node.left, value)]
       IN  avl_balance(avl_update(linked))

RECURSIVE avl__insert(_, _)
avl__insert(node, value) ==
  IF node = NullNode THEN AVLNode(value)
  ELSE LET cmp == compareTo(value, node.value)
           linked ==
             IF cmp < 0
             THEN [node EXCEPT !.left = avl__insert(node.left, value)]
             ELSE [node EXCEPT !.right = avl__insert(node.right, value)]
       IN  avl_balance(avl_update(linked))

avl_insert(t, value) ==
  IF value = Null THEN TreeReturn(t, FALSE)
  ELSE IF ~avl_contains(t, value)
  THEN TreeReturn([root |-> avl__insert(t.root, value),
                   nodeCount |-> t.nodeCount + 1], TRUE)
  ELSE TreeReturn(t, FALSE)

RECURSIVE avl_findMin(_)
avl_findMin(node) ==
  IF node.left # NullNode THEN avl_findMin(node.left) ELSE node.value

RECURSIVE avl_findMax(_)
avl_findMax(node) ==
  IF node.right # NullNode THEN avl_findMax(node.right) ELSE node.value

RECURSIVE avl__remove(_, _)
avl__remove(node, elem) ==
  IF node = NullNode THEN NullNode
  ELSE
    LET cmp == compareTo(elem, node.value)
    IN  IF cmp < 0
        THEN avl_balance(avl_update(
               [node EXCEPT !.left = avl__remove(node.left, elem)]))
        ELSE IF cmp > 0
        THEN avl_balance(avl_update(
               [node EXCEPT !.right = avl__remove(node.right, elem)]))
        ELSE IF node.left = NullNode THEN node.right
        ELSE IF node.right = NullNode THEN node.left
        ELSE IF node.left.height > node.right.height
        THEN LET successorValue == avl_findMax(node.left)
             IN  avl_balance(avl_update(
                   [node EXCEPT
                      !.value = successorValue,
                      !.left = avl__remove(node.left, successorValue)]))
        ELSE LET successorValue == avl_findMin(node.right)
             IN  avl_balance(avl_update(
                   [node EXCEPT
                      !.value = successorValue,
                      !.right = avl__remove(node.right, successorValue)]))

\* variant: the count is not decremented
avl_remove_noCount(t, elem) ==
  IF elem = Null THEN TreeReturn(t, FALSE)
  ELSE IF avl_contains(t, elem)
  THEN TreeReturn([root |-> avl__remove(t.root, elem),
                   nodeCount |-> t.nodeCount], TRUE)
  ELSE TreeReturn(t, FALSE)

avl_remove(t, elem) ==
  IF elem = Null THEN TreeReturn(t, FALSE)
  ELSE IF avl_contains(t, elem)
  THEN TreeReturn([root |-> avl__remove(t.root, elem),
                   nodeCount |-> t.nodeCount - 1], TRUE)
  ELSE TreeReturn(t, FALSE)

\* the iterator's loop: stack and current are its locals, out the values
\* yielded so far
RECURSIVE avl_iteratorLoop(_, _, _)
avl_iteratorLoop(stack, current, out) ==
  IF ~(Len(stack) > 0 \/ current # NullNode) THEN out
  ELSE IF current # NullNode
  THEN avl_iteratorLoop(Append(stack, current), current.left, out)
  ELSE LET popped == stack[Len(stack)]
       IN  avl_iteratorLoop(SubSeq(stack, 1, Len(stack) - 1), popped.right,
                            Append(out, popped.value))

\* Array.from(tree): the sequence of values the iterator yields
avl_iterator(t) == avl_iteratorLoop(<<>>, t.root, <<>>)

RECURSIVE avl_validateBSTInvariantAt(_)
avl_validateBSTInvariantAt(node) ==
  IF node = NullNode THEN TRUE
  ELSE
    LET leftValid ==
          node.left # NullNode => compareTo(node.left.value, node.value) < 0
        rightValid ==
          node.right # NullNode => compareTo(node.right.value, node.value) > 0
    IN  /\ leftValid /\ rightValid
        /\ avl_validateBSTInvariantAt(node.left)
        /\ avl_validateBSTInvariantAt(node.right)

\* validateBSTInvariant() with its default argument, the root
avl_validateBSTInvariant(t) == avl_validateBSTInvariantAt(t.root)


(* ----------------------- AVLTreeRecursiveOptimized --------------------- *)

\* TOKEN = new AVLNode(null), compared by reference; no node of a tree holds
\* null, so no node of a tree equals it
TOKEN == AVLNode(Null)

opt_height(t) == IF t.root = NullNode THEN 0 ELSE t.root.height

opt_size(t) == t.nodeCount

opt_isEmpty(t) == opt_size(t) = 0

\* the loop of contains(value), from the node it has reached
RECURSIVE opt_containsLoop(_, _)
opt_containsLoop(node, value) ==
  IF node = NullNode THEN FALSE
  ELSE LET cmp == compareTo(value, node.value)
       IN  IF cmp < 0 THEN opt_containsLoop(node.left, value)
           ELSE IF cmp > 0 THEN opt_containsLoop(node.right, value)
           ELSE TRUE

opt_contains(t, value) == opt_containsLoop(t.root, value)

opt_update(node) ==
  LET leftNodeHeight == IF node.left = NullNode THEN -1 ELSE node.left.height
      rightNodeHeight ==
        IF node.right = NullNode THEN -1 ELSE node.right.height
  IN  [node EXCEPT !.height = 1 + Max(leftNodeHeight, rightNodeHeight),
                   !.bf = rightNodeHeight - leftNodeHeight]

opt_leftRotation(node) ==
  LET newParent == node.right
      lowered == opt_update([node EXCEPT !.right = newParent.left])
  IN  opt_update([newParent EXCEPT !.left = lowered])

opt_rightRotation(node) ==
  LET newParent == node.left
      lowered == opt_update([node EXCEPT !.left = newParent.right])
  IN  opt_update([newParent EXCEPT !.right = lowered])

opt_leftLeftCase(node) == opt_rightRotation(node)

\* variant: the left-right case without the rotation of the left child
opt_leftRightCase_single(node) == opt_leftLeftCase(node)

opt_leftRightCase(node) ==
  opt_leftLeftCase([node EXCEPT !.left = opt_leftRotation(node.left)])

opt_rightRightCase(node) == opt_leftRotation(node)

opt_rightLeftCase(node) ==
  opt_rightRightCase([node EXCEPT !.right = opt_rightRotation(node.right)])

opt_balance(node) ==
  IF node.bf = -2
  THEN IF node.left.bf <= 0 THEN opt_leftLeftCase(node)
       ELSE opt_leftRightCase(node)
  ELSE IF node.bf = 2
  THEN IF node.right.bf >= 0 THEN opt_rightRightCase(node)
       ELSE opt_rightLeftCase(node)
  ELSE node

\* _insert returns TOKEN for a value that is already there, before it has
\* assigned to any node
RECURSIVE opt__insert(_, _)
opt__insert(node, value) ==
  IF node = NullNode THEN AVLNode(value)
  ELSE
    LET cmp == compareTo(value, node.value)
    IN  IF cmp < 0
        THEN LET newLeftNode == opt__insert(node.left, value)
             IN  IF newLeftNode = TOKEN THEN TOKEN
                 ELSE opt_balance(opt_update(
                        [node EXCEPT !.left = newLeftNode]))
        ELSE IF cmp > 0
        THEN LET newRightNode == opt__insert(node.right, value)
             IN  IF newRightNode = TOKEN THEN TOKEN
                 ELSE opt_balance(opt_update(
                        [node EXCEPT !.right = newRightNode]))
        ELSE TOKEN

\* variant: insert that takes the token for an inserted node
opt_insert_ignoresToken(t, value) ==
  IF value = Null THEN TreeReturn(t, FALSE)
  ELSE LET newRoot == opt__insert(t.root, value)
       IN  TreeReturn([root |-> newRoot,
                       nodeCount |-> t.nodeCount + 1], TRUE)

opt_insert(t, value) ==
  IF value = Null THEN TreeReturn(t, FALSE)
  ELSE LET newRoot == opt__insert(t.root, value)
           insertedNode == newRoot # TOKEN
       IN  IF insertedNode
           THEN TreeReturn([root |-> newRoot,
                            nodeCount |-> t.nodeCount + 1], insertedNode)
           ELSE TreeReturn(t, insertedNode)

RECURSIVE opt_findMin(_)
opt_findMin(node) ==
  IF node.left # NullNode THEN opt_findMin(node.left) ELSE node.value

RECURSIVE opt_findMax(_)
opt_findMax(node) ==
  IF node.right # NullNode THEN opt_findMax(node.right) ELSE node.value

\* _remove(node, elem).  ret is the reference returned (a node, null or
\* TOKEN); here is the node the argument refers to as the call leaves it,
\* which is what the caller still holds when TOKEN comes back: the case of
\* two children assigns node.value before it knows what the recursive call
\* returns.
RECURSIVE opt__remove(_, _)
opt__remove(node, elem) ==
  IF node = NullNode THEN [ret |-> TOKEN, here |-> NullNode]
  ELSE
    LET cmp == compareTo(elem, node.value)
        done(changed) ==
          [ret |-> opt_balance(opt_update(changed)), here |-> changed]
    IN  IF cmp < 0
        THEN LET newLeftNode == opt__remove(node.left, elem)
             IN  IF newLeftNode.ret = TOKEN
                 THEN [ret |-> TOKEN,
                       here |-> [node EXCEPT !.left = newLeftNode.here]]
                 ELSE done([node EXCEPT !.left = newLeftNode.ret])
        ELSE IF cmp > 0
        THEN LET newRightNode == opt__remove(node.right, elem)
             IN  IF newRightNode.ret = TOKEN
                 THEN [ret |-> TOKEN,
                       here |-> [node EXCEPT !.right = newRightNode.here]]
                 ELSE done([node EXCEPT !.right = newRightNode.ret])
        ELSE IF node.left = NullNode THEN [ret |-> node.right, here |-> node]
        ELSE IF node.right = NullNode THEN [ret |-> node.left, here |-> node]
        ELSE IF node.left.height > node.right.height
        THEN LET successorValue == opt_findMax(node.left)
                 replacement == opt__remove(node.left, successorValue)
             IN  IF replacement.ret = TOKEN
                 THEN [ret |-> TOKEN,
                       here |-> [node EXCEPT !.value = successorValue,
                                             !.left = replacement.here]]
                 ELSE done([node EXCEPT !.value = successorValue,
                                        !.left = replacement.ret])
        ELSE LET successorValue == opt_findMin(node.right)
                 replacement == opt__remove(node.right, successorValue)
             IN  IF replacement.ret = TOKEN
                 THEN [ret |-> TOKEN,
                       here |-> [node EXCEPT !.value = successorValue,
                                             !.right = replacement.here]]
                 ELSE done([node EXCEPT !.value = successorValue,
                                        !.right = replacement.ret])

opt_remove(t, elem) ==
  LET newRoot == opt__remove(t.root, elem)
      removedNode == newRoot.ret # TOKEN
  IN  IF removedNode
      THEN TreeReturn([root |-> newRoot.ret,
                       nodeCount |-> t.nodeCount - 1], TRUE)
      ELSE TreeReturn([root |-> newRoot.here,
                       nodeCount |-> t.nodeCount], FALSE)

RECURSIVE opt_iteratorLoop(_, _, _)
opt_iteratorLoop(stack, trav, out) ==
  IF ~(Len(stack) > 0 \/ trav # NullNode) THEN out
  ELSE IF trav # NullNode
  THEN opt_iteratorLoop(Append(stack, trav), trav.left, out)
  ELSE LET node == stack[Len(stack)]
       IN  opt_iteratorLoop(SubSeq(stack, 1, Len(stack) - 1), node.right,
                            Append(out, node.value))

opt_iterator(t) == opt_iteratorLoop(<<>>, t.root, <<>>)

RECURSIVE opt_validateBSTInvariantAt(_)
opt_validateBSTInvariantAt(node) ==
  IF node = NullNode THEN TRUE
  ELSE
    LET leftValid ==
          node.left # NullNode => compareTo(node.left.value, node.value) < 0
        rightValid ==
          node.right # NullNode => compareTo(node.right.value, node.value) > 0
    IN  /\ leftValid /\ rightValid
        /\ opt_validateBSTInvariantAt(node.left)
        /\ opt_validateBSTInvariantAt(node.right)

opt_validateBSTInvariant(t) == opt_validateBSTInvariantAt(t.root)


(* --------------------------- the trees in use -------------------------- *)

\* An AVLTreeRecursive (tree) and an AVLTreeRecursiveOptimized (otree),
\* both empty at first, and every call made on both with the same argument.
\* stored is the set of values a caller has inserted and not removed since.
InitAvl ==
  /\ tree = EmptyTree
  /\ otree = EmptyTree
  /\ stored = {}
  /\ run = Idle
  /\ heap = NoHeap
  /\ phase = "any"
  /\ polled = <<>>
  /\ inserted = [v \in Vals |-> 0]
  /\ args = NoArgs
  /\ latest = <<>>
  /\ bheap = NoHeap

TreeInsert(value) ==
  /\ tree' = avl_insert(tree, value).tree
  /\ otree' = opt_insert(otree, value).tree
  /\ stored' = IF value = Null THEN stored ELSE stored \cup {value}
  /\ UNCHANGED <<heap, phase, polled, inserted, args, latest, bheap, run>>

TreeRemove(elem) ==
  /\ tree' = avl_remove(tree, elem).tree
  /\ otree' = opt_remove(otree, elem).tree
  /\ stored' = stored \ {elem}
  /\ UNCHANGED <<heap, phase, polled, inserted, args, latest, bheap, run>>

\* the calls that read only: contains, size, height, the iterator and
\* validateBSTInvariant assign to nothing
TreeContains(value) ==
  /\ avl_contains(tree, value) \in BOOLEAN
  /\ opt_contains(otree, value) \in BOOLEAN
  /\ UNCHANGED vars

TreeIterate ==
  /\ Len(avl_iterator(tree)) >= 0
  /\ Len(opt_iterator(otree)) >= 0
  /\ UNCHANGED vars

TreeValidate ==
  /\ avl_validateBSTInvariant(tree) \in BOOLEAN
  /\ opt_validateBSTInvariant(otree) \in BOOLEAN
  /\ UNCHANGED vars

NextAvl ==
  \/ \E value \in Elems \cup {Null} : TreeInsert(value)
  \/ \E elem \in Elems : TreeRemove(elem)
  \/ \E value \in Elems : TreeContains(value)
  \/ TreeIterate
  \/ TreeValidate

SpecAvl == InitAvl /\ [][NextAvl]_vars

(* ------------------------ vocabulary for the trees --------------------- *)

\* the values of the sequence q
Range(q) == {q[i] : i \in DOMAIN q}

\* q lists the set S, each element once, in strictly ascending order
ListsAscending(q, S) ==
  /\ Len(q) = Cardinality(S)
  /\ Range(q) = S
  /\ \A i \in 1..(Len(q) - 1) : compareTo(q[i], q[i + 1]) < 0

\* the height of the subtree at node: the edges on the longest path down to
\* a leaf, so 0 for a leaf and -1 for no node
RECURSIVE TrueHeight(_)
TrueHeight(node) ==
  IF node = NullNode THEN 0 - 1
  ELSE 1 + Max(TrueHeight(node.left), TrueHeight(node.right))

\* every node below and at node stores its true height and its balance
\* factor, and the balance factor is -1, 0 or 1
RECURSIVE HeightsAndBalance(_)
HeightsAndBalance(node) ==
  \/ node = NullNode
  \/ /\ node.height = TrueHeight(node)
     /\ node.bf = TrueHeight(node.right) - TrueHeight(node.left)
     /\ node.bf \in {0 - 1, 0, 1}
     /\ HeightsAndBalance(node.left)
     /\ HeightsAndBalance(node.right)

\* the values of Elems each tree contains
avl_Contents(t) == {v \in Elems : avl_contains(t, v)}

opt_Contents(t) == {v \in Elems : opt_contains(t, v)}

(* ------------------------- claims about the trees ---------------------- *)

\* C17: after any sequence of insert and remove calls, on either tree,
\* validateBSTInvariant() returns true and iterating the tree yields exactly
\* the values stored, each once, in strictly ascending compareTo order.
C17_BstAndIteration ==
  /\ avl_validateBSTInvariant(tree) = TRUE
  /\ opt_validateBSTInvariant(otree) = TRUE
  /\ ListsAscending(avl_iterator(tree), stored)
  /\ ListsAscending(opt_iterator(otree), stored)

\* trees of height 2 whose root has two children, each with a child of its
\* own side missing, holding some but not all of the values
C17_Witness ==
  /\ Cardinality(stored) >= 5
  /\ stored # Elems
  /\ avl_height(tree) = 2
  /\ opt_height(otree) = 2
  /\ tree.root.left # NullNode
  /\ tree.root.right # NullNode
  /\ otree.root.left.right # NullNode
  /\ otree.root.right.left # NullNode
  /\ Len(avl_iterator(tree)) >= 5
  /\ Len(opt_iterator(otree)) >= 5


\* the tree after insert(q[1]), ..., insert(q[Len(q)]) on the tree t; the
\* calls q[lo..hi] are made as those of the first half, then the rest
RECURSIVE avl_insertRange(_, _, _, _)
avl_insertRange(t, q, lo, hi) ==
  IF lo > hi THEN t
  ELSE IF lo = hi THEN avl_insert(t, q[lo]).tree
  ELSE LET mid == (lo + hi) \div 2
           firstHalf == avl_insertRange(t, q, lo, mid)
       IN  IF firstHalf.nodeCount >= 0
           THEN avl_insertRange(firstHalf, q, mid + 1, hi)
           ELSE firstHalf

avl_insertAll(t, q) == avl_insertRange(t, q, 1, Len(q))

RECURSIVE opt_insertRange(_, _, _, _)
opt_insertRange(t, q, lo, hi) ==
  IF lo > hi THEN t
  ELSE IF lo = hi THEN opt_insert(t, q[lo]).tree
  ELSE LET mid == (lo + hi) \div 2
           firstHalf == opt_insertRange(t, q, lo, mid)
       IN  IF firstHalf.nodeCount >= 0
           THEN opt_insertRange(firstHalf, q, mid + 1, hi)
           ELSE firstHalf

opt_insertAll(t, q) == opt_insertRange(t, q, 1, Len(q))

\* the test "should handle massive insertions" inserts 0, 1, ..., 99
MassiveInsertions == 100

\* NumberValue(i) is the number i + 1 here, 0 being null
Ascending(n) == [i \in 1..n |-> i]

\* C18: after any sequence of insert and remove calls on either tree, every
\* node's stored height is the true height of its subtree (leaf = 0) and
\* every node's balance factor is height(right) - height(left) and is -1, 0
\* or 1; and on an empty tree three values inserted in ascending order, or
\* in the order largest, smallest, middle (30, 10, 20), give height() = 1,
\* and 100 ascending inserts give height() < 8.
C18_Balance ==
  /\ HeightsAndBalance(tree.root)
  /\ HeightsAndBalance(otree.root)
  /\ (avl_isEmpty(tree) /\ opt_isEmpty(otree)) =>
       /\ \A a, b, c \in Elems :
            (a < b /\ b < c) =>
              /\ avl_height(avl_insertAll(tree, <<a, b, c>>)) = 1
              /\ opt_height(opt_insertAll(otree, <<a, b, c>>)) = 1
              /\ avl_height(avl_insertAll(tree, <<c, a, b>>)) = 1
              /\ opt_height(opt_insertAll(otree, <<c, a, b>>)) = 1
       /\ avl_height(avl_insertAll(tree, Ascending(MassiveInsertions))) < 8
       /\ opt_height(opt_insertAll(otree, Ascending(MassiveInsertions))) < 8

\* trees of height 2 that lean: the root's balance factor is not 0, and a
\* removal on the short side makes the root rotate
C18_Witness ==
  /\ avl_height(tree) = 2
  /\ opt_height(otree) = 2
  /\ tree.root.bf = 1
  /\ otree.root.bf = 1
  /\ tree.root.right.bf = 0 - 1
  /\ \E elem \in stored :
       /\ compareTo(elem, tree.root.value) < 0
       /\ avl_remove(tree, elem).tree.root.value # tree.root.value
       /\ opt_remove(otree, elem).tree.root.value # otree.root.value
       /\ HeightsAndBalance(avl_remove(tree, elem).tree.root)


\* C19: on either tree, insert(v) returns false and leaves size and
\* contents unchanged when v is already present, and otherwise returns true,
\* makes contains(v) true and increases size by 1; remove(v) returns false
\* and leaves size and contents unchanged when v is absent, and otherwise
\* returns true, makes contains(v) false, keeps every other value and
\* decreases size by 1; size() is always the number of values contained.
C19_MembershipAndSize ==
  /\ avl_Contents(tree) = stored
  /\ opt_Contents(otree) = stored
  /\ avl_size(tree) = Cardinality(avl_Contents(tree))
  /\ opt_size(otree) = Cardinality(opt_Contents(otree))
  /\ \A v \in Elems :
       LET ai == avl_insert(tree, v)
           oi == opt_insert(otree, v)
           ar == avl_remove(tree, v)
           or == opt_remove(otree, v)
       IN  /\ IF avl_contains(tree, v)
              THEN /\ ai.val = FALSE
                   /\ avl_size(ai.tree) = avl_size(tree)
                   /\ avl_Contents(ai.tree) = avl_Contents(tree)
                   /\ ar.val = TRUE
                   /\ ~avl_contains(ar.tree, v)
                   /\ avl_Contents(ar.tree) = avl_Contents(tree) \ {v}
                   /\ avl_size(ar.tree) = avl_size(tree) - 1
              ELSE /\ ai.val = TRUE
                   /\ avl_contains(ai.tree, v)
                   /\ avl_Contents(ai.tree) = avl_Contents(tree) \cup {v}
                   /\ avl_size(ai.tree) = avl_size(tree) + 1
                   /\ ar.val = FALSE
                   /\ avl_size(ar.tree) = avl_size(tree)
                   /\ avl_Contents(ar.tree) = avl_Contents(tree)
           /\ IF opt_contains(otree, v)
              THEN /\ oi.val = FALSE
                   /\ opt_size(oi.tree) = opt_size(otree)
                   /\ opt_Contents(oi.tree) = opt_Contents(otree)
                   /\ or.val = TRUE
                   /\ ~opt_contains(or.tree, v)
                   /\ opt_Contents(or.tree) = opt_Contents(otree) \ {v}
                   /\ opt_size(or.tree) = opt_size(otree) - 1
              ELSE /\ oi.val = TRUE
                   /\ opt_contains(oi.tree, v)
                   /\ opt_Contents(oi.tree) = opt_Contents(otree) \cup {v}
                   /\ opt_size(oi.tree) = opt_size(otree) + 1
                   /\ or.val = FALSE
                   /\ opt_size(or.tree) = opt_size(otree)
                   /\ opt_Contents(or.tree) = opt_Contents(otree)

\* trees that hold some values and lack others, where the value at the
\* root sits in a node with two children of different heights and is removed
C19_Witness ==
  /\ Cardinality(stored) >= 4
  /\ stored # Elems
  /\ tree.root.left # NullNode
  /\ tree.root.right # NullNode
  /\ otree.root.left # NullNode
  /\ otree.root.right # NullNode
  /\ tree.root.left.height > tree.root.right.height
  /\ avl_remove(tree, tree.root.value).val = TRUE
  /\ opt_remove(otree, otree.root.value).val = TRUE
  /\ avl_remove(tree, tree.root.value).tree.root.value
       = avl_findMax(tree.root.left)
  /\ \E v \in Elems \ stored : opt_remove(otree, v).val = FALSE
  /\ \E v \in stored : avl_insert(tree, v).val = FALSE


(* ======================================================================= *)
(* The loops of sink and swim, one iteration per step.                     *)
(*                                                                         *)
(* A call that reaches sink or swim runs as: the writes the method makes   *)
(* before the loop (Start...), then one step per iteration of the loop     *)
(* (SinkStep, SwimStep), then the step that finds the loop's condition     *)
(* false and does what the method does after the loop (LoopExit).  heap is *)
(* the object as the running method has left it so far.                    *)
(* ======================================================================= *)

\* the condition of swim's while loop
swimCondition(h, i) == i > 0 /\ less(h, i, h.parent[i])

\* variant: a body that exchanges and does not move i
swimBody_stay(h, i) == [heap |-> swap(h, i, h.parent[i]), i |-> i]

\* the body of swim's loop: swap(i, parent[i]); i = parent[i]
swimBody(h, i) == [heap |-> swap(h, i, h.parent[i]), i |-> h.parent[i]]

\* the body of sink's loop, j being minChild(i): swap(i, j); i = j
sinkBody(h, i, j) == [heap |-> swap(h, i, j), i |-> j]

InitLoop ==
  /\ \E degree \in 1..MaxDegree, maxSize \in 1..MaxSize :
       heap = construct(degree, maxSize)
  /\ run = Idle
  /\ phase = "any"
  /\ polled = <<>>
  /\ inserted = [v \in Vals |-> 0]
  /\ args = NoArgs
  /\ latest = <<>>
  /\ bheap = NoHeap
  /\ tree = EmptyTree
  /\ otree = EmptyTree
  /\ stored = {}

\* the method has written h and enters the loop pc with the argument i
Begin(h, pc, i, rest, ki) ==
  /\ heap' = h
  /\ run' = [pc |-> pc, i |-> i, from |-> i, swaps |-> 0, rest |-> rest,
             ki |-> ki]
  /\ UNCHANGED <<phase, polled, inserted, args, latest, bheap, tree, otree, stored>>

\* insert(ki, value) up to swim(this.sz++)
StartInsert(ki, value) ==
  /\ run.pc = "idle"
  /\ insert(heap, ki, value).kind = "ok"
  /\ LET h1 == [heap EXCEPT !.pm[ki] = heap.sz]
         h2 == [h1 EXCEPT !.im[h1.sz] = ki]
         h3 == [h2 EXCEPT !.values[ki] = value]
         h4 == [h3 EXCEPT !.sz = h3.sz + 1]
     IN  Begin(h4, "swim", h3.sz, <<>>, Absent)

\* delete(ki) up to sink(i); swim(i) and the clearing of the key follow
StartDelete(ki) ==
  /\ run.pc = "idle"
  /\ delete(heap, ki).kind = "ok"
  /\ LET i == heap.pm[ki]
         h1 == [heap EXCEPT !.sz = heap.sz - 1]
         h2 == swap(h1, i, h1.sz)
     IN  Begin(h2, "sink", i, <<"swim", "clear">>, ki)

\* pollMinKeyIndex() and pollMinValue(): delete(peekMinKeyIndex())
StartPoll ==
  /\ run.pc = "idle"
  /\ peekMinKeyIndex(heap).kind = "ok"
  /\ StartDelete(peekMinKeyIndex(heap).val)

\* update(ki, value) up to sink(i); swim(i) follows
StartUpdate(ki, value) ==
  /\ run.pc = "idle"
  /\ update(heap, ki, value).kind = "ok"
  /\ LET i == heap.pm[ki]
         h1 == [heap EXCEPT !.values[ki] = value]
     IN  Begin(h1, "sink", i, <<"swim">>, Absent)

\* decrease(ki, value) with a smaller value, up to swim(pm[ki])
StartDecrease(ki, value) ==
  /\ run.pc = "idle"
  /\ decrease(heap, ki, value).kind = "ok"
  /\ lessValue(value, heap.values[ki])
  /\ LET h1 == [heap EXCEPT !.values[ki] = value]
     IN  Begin(h1, "swim", h1.pm[ki], <<>>, Absent)

\* increase(ki, value) with a larger value, up to sink(pm[ki])
StartIncrease(ki, value) ==
  /\ run.pc = "idle"
  /\ increase(heap, ki, value).kind = "ok"
  /\ lessValue(heap.values[ki], value)
  /\ LET h1 == [heap EXCEPT !.values[ki] = value]
     IN  Begin(h1, "sink", h1.pm[ki], <<>>, Absent)

\* a call that returns or throws without reaching sink or swim: contains,
\* the peeks, valueOf, isMinHeap, a call that fails a check, a decrease or
\* increase that does not apply
StraightCall ==
  /\ run.pc = "idle"
  /\ UNCHANGED vars

\* one iteration of sink's loop
SinkStep ==
  /\ run.pc = "sink"
  /\ LET j == minChild(heap, run.i)
     IN  /\ j # -1
         /\ heap' = sinkBody(heap, run.i, j).heap
         /\ run' = [run EXCEPT !.i = sinkBody(heap, run.i, j).i,
                               !.swaps = run.swaps + 1]
  /\ UNCHANGED <<phase, polled, inserted, args, latest, bheap, tree, otree, stored>>

\* one iteration of swim's loop
SwimStep ==
  /\ run.pc = "swim"
  /\ swimCondition(heap, run.i)
  /\ heap' = swimBody(heap, run.i).heap
  /\ run' = [run EXCEPT !.i = swimBody(heap, run.i).i,
                        !.swaps = run.swaps + 1]
  /\ UNCHANGED <<phase, polled, inserted, args, latest, bheap, tree, otree, stored>>

\* the loop's condition is false: the method goes on with what follows the
\* loop, up to the next loop or to its return
LoopExit ==
  /\ \/ run.pc = "sink" /\ minChild(heap, run.i) = -1
     \/ run.pc = "swim" /\ ~swimCondition(heap, run.i)
  /\ IF run.rest = <<>>
     THEN heap' = heap /\ run' = Idle
     ELSE IF Head(run.rest) = "swim"
     THEN /\ heap' = heap
          /\ run' = [run EXCEPT !.pc = "swim", !.i = run.from, !.swaps = 0,
                                !.rest = Tail(run.rest)]
     ELSE \* the end of delete
          /\ heap' = [heap EXCEPT !.values[run.ki] = Null,
                                  !.pm[run.ki] = Absent,
                                  !.im[heap.sz] = Absent]
          /\ run' = Idle
  /\ UNCHANGED <<phase, polled, inserted, args, latest, bheap, tree, otree, stored>>

LoopSteps == SinkStep \/ SwimStep \/ LoopExit

\* the values the calls of this specification pass: the loops only compare
\* values, and the least and the greatest value give every outcome of a
\* comparison (less, equal, greater)
LoopValueArgs == {1, MaxVal}

NextLoop ==
  \/ \E ki \in KeyArgs(heap), value \in LoopValueArgs : StartInsert(ki, value)
  \/ \E ki \in KeyArgs(heap) : StartDelete(ki)
  \/ StartPoll
  \/ \E ki \in KeyArgs(heap), value \in LoopValueArgs : StartUpdate(ki, value)
  \/ \E ki \in KeyArgs(heap), value \in LoopValueArgs : StartDecrease(ki, value)
  \/ \E ki \in KeyArgs(heap), value \in LoopValueArgs : StartIncrease(ki, value)
  \/ StraightCall
  \/ SinkStep
  \/ SwimStep
  \/ LoopExit

\* the methods run on one thread and nothing suspends them: a method that
\* has entered a loop goes on executing
SpecLoop == InitLoop /\ [][NextLoop]_vars /\ WF_vars(LoopSteps)

\* the number of parent links from slot s up to slot 0
RECURSIVE Depth(_, _)
Depth(h, s) == IF s <= 0 THEN 0 ELSE 1 + Depth(h, h.parent[s])

\* the depth of the tree over the occupied slots 0 .. sz - 1
TreeDepth(h) == IF h.sz = 0 THEN 0 ELSE Depth(h, h.sz - 1)

\* an iteration of swim moves i to a smaller slot, one of sink to a larger
\* occupied slot, and each makes one exchange
LoopsProgress ==
  /\ (run.pc = "swim" /\ run'.pc = "swim") =>
       /\ run'.i < run.i
       /\ run'.i >= 0
       /\ run'.swaps = run.swaps + 1
  /\ (run.pc = "sink" /\ run'.pc = "sink") =>
       /\ run'.i > run.i
       /\ run'.i < heap.sz
       /\ run'.swaps = run.swaps + 1

\* swim ends at slot 0 or below a parent that is not greater, sink where no
\* in-range child is smaller
LoopsEndWhereTheyShould ==
  /\ (run.pc = "swim" /\ run'.pc # "swim") =>
       \/ run.i = 0
       \/ compare(heap.values[heap.im[heap.parent[run.i]]],
                  heap.values[heap.im[run.i]]) <= 0
  /\ (run.pc = "sink" /\ run'.pc # "sink") =>
       \A c \in ChildSlots(heap, run.i) :
         compare(heap.values[heap.im[c]], heap.values[heap.im[run.i]]) >= 0

\* C20: every public operation terminates from every reachable state: each
\* swim loop strictly decreases its slot index until it reaches slot 0 or a
\* parent that is not greater, each sink loop strictly increases its slot
\* index until no in-range child is smaller, and the number of swaps in one
\* swim or sink is at most the depth of the tree over size slots.
C20_Termination ==
  /\ [][LoopsProgress]_vars
  /\ [][LoopsEndWhereTheyShould]_vars
  /\ [](run.swaps <= TreeDepth(heap))
  /\ (run.pc # "idle") ~> (run.pc = "idle")

\* a swim that has climbed from the deepest slot to the root, with as many
\* exchanges as the tree is deep
C20_Witness ==
  /\ run.pc = "swim"
  /\ run.from = heap.sz - 1
  /\ run.i = 0
  /\ run.swaps = 2
  /\ TreeDepth(heap) = 2

\* a sink that has gone down two levels, in a delete
C20_WitnessSink ==
  /\ run.pc = "sink"
  /\ run.from = 0
  /\ run.swaps >= 1
  /\ run.i > heap.D
  /\ run.rest # <<>>

\* an iteration leaves what the loop will have computed unchanged, and the
\* loop ends with it computed: the steps compute what swim and sink do
LoopsComputeSwimAndSink ==
  /\ (run.pc = "swim" /\ run'.pc = "swim") =>
       swim(heap', run'.i) = swim(heap, run.i)
  /\ (run.pc = "sink" /\ run'.pc = "sink") =>
       sink(heap', run'.i) = sink(heap, run.i)
  /\ (run.pc = "swim" /\ run'.pc # "swim") => swim(heap, run.i) = heap
  /\ (run.pc = "sink" /\ run'.pc # "sink") => sink(heap, run.i) = heap

StepsRefineMethods == [][LoopsComputeSwimAndSink]_vars


(* ------------------------- sentinels, frames --------------------------- *)

\* a key has no slot exactly when it has no value, and a slot has no key
\* exactly when it is at or beyond sz
SentinelsConsistent(h) ==
  /\ \A k \in Keys(h) : h.pm[k] = Absent <=> h.values[k] = Null
  /\ \A s \in Keys(h) : h.im[s] = Absent <=> s >= size(h)

\* C21: after every public operation, for every key k in [0, N),
\* pm[k] = -1 if and only if values[k] = null, and for every slot s in
\* [0, N), im[s] = -1 if and only if s >= size; also after the delete of
\* the key in the last occupied slot and of the only key.
C21_Sentinels ==
  Constructed => SentinelsConsistent(heap)

\* a heap of several keys with room to spare, some key away from the slot
\* of its own number, from which the key in the last occupied slot is deleted
C21_Witness ==
  /\ Constructed
  /\ size(heap) >= 2
  /\ size(heap) < heap.N
  /\ \E k \in ActiveKeys(heap) : heap.pm[k] # k
  /\ LET last == heap.im[size(heap) - 1]
         d == delete(heap, last)
     IN  /\ d.kind = "ok"
         /\ d.heap.im[size(heap) - 1] = Absent
         /\ d.heap.pm[last] = Absent
         /\ d.heap.values[last] = Null
         /\ SentinelsConsistent(d.heap)

\* a heap of one key, from which the only key is deleted
C21_WitnessOnlyKey ==
  /\ Constructed
  /\ size(heap) = 1
  /\ LET d == delete(heap, heap.im[0])
     IN  /\ d.kind = "ok"
         /\ size(d.heap) = 0
         /\ \A s \in Keys(heap) : d.heap.im[s] = Absent /\ d.heap.pm[s] = Absent


\* valueOf(j) succeeds on h and returns v
ValueOfIs(h, j, v) ==
  /\ valueOf(h, j).kind = "ok"
  /\ valueOf(h, j).val = v

\* ---- the heap with a record of what its callers stored ----
\* latest[k] is the value the callers most recently stored for key k by a
\* successful insert or update or an effective decrease or increase, Null
\* once k has been deleted or polled; phase tells whether the last call
\* raised

InitLog ==
  /\ \E degree \in 1..MaxDegree, maxSize \in 1..MaxSize :
       /\ heap = construct(degree, maxSize)
       /\ latest = [k \in Keys(construct(degree, maxSize)) |-> Null]
  /\ phase = "ok"
  /\ polled = <<>>
  /\ inserted = [v \in Vals |-> 0]
  /\ args = NoArgs
  /\ bheap = NoHeap
  /\ tree = EmptyTree
  /\ otree = EmptyTree
  /\ stored = {}
  /\ run = Idle

Put(ki, value) == [latest EXCEPT ![ki] = value]

\* one call: r is what the method computed, after is the record if the call
\* returns
Record(r, after) ==
  /\ heap' = r.heap
  /\ phase' = IF r.kind = "ok" THEN "ok" ELSE "failed"
  /\ latest' = IF r.kind = "ok" THEN after ELSE latest
  /\ UNCHANGED <<polled, inserted, args, bheap, tree, otree, stored, run>>

LogContains(ki) == Record(m_contains(heap, ki), latest)

LogPeekMinKeyIndex == Record(peekMinKeyIndex(heap), latest)

LogPollMinKeyIndex ==
  Record(pollMinKeyIndex(heap), Put(pollMinKeyIndex(heap).val, Null))

LogPeekMinValue == Record(peekMinValue(heap), latest)

LogPollMinValue ==
  Record(pollMinValue(heap), Put(peekMinKeyIndex(heap).val, Null))

LogInsert(ki, value) == Record(insert(heap, ki, value), Put(ki, value))

LogValueOf(ki) == Record(valueOf(heap, ki), latest)

LogDelete(ki) == Record(delete(heap, ki), Put(ki, Null))

LogUpdate(ki, value) == Record(update(heap, ki, value), Put(ki, value))

LogDecrease(ki, value) ==
  Record(decrease(heap, ki, value),
         IF compare(value, latest[ki]) < 0 THEN Put(ki, value) ELSE latest)

LogIncrease(ki, value) ==
  Record(increase(heap, ki, value),
         IF compare(latest[ki], value) < 0 THEN Put(ki, value) ELSE latest)

LogIsMinHeap == Record(isMinHeap(heap), latest)

NextLog ==
  \/ \E ki \in KeyArgs(heap) : LogContains(ki)
  \/ LogPeekMinKeyIndex
  \/ LogPollMinKeyIndex
  \/ LogPeekMinValue
  \/ LogPollMinValue
  \/ \E ki \in KeyArgs(heap), value \in ValueArgs : LogInsert(ki, value)
  \/ \E ki \in KeyArgs(heap) : LogValueOf(ki)
  \/ \E ki \in KeyArgs(heap) : LogDelete(ki)
  \/ \E ki \in KeyArgs(heap), value \in ValueArgs : LogUpdate(ki, value)
  \/ \E ki \in KeyArgs(heap), value \in ValueArgs : LogDecrease(ki, value)
  \/ \E ki \in KeyArgs(heap), value \in ValueArgs : LogIncrease(ki, value)
  \/ LogIsMinHeap

SpecLog == InitLog /\ [][NextLog]_vars

\* C22: values are bound to keys, not slots. For every active key j,
\* valueOf(j) returns the value most recently stored for j by insert, update
\* or an effective decrease/increase on j; no insert, delete, update,
\* increase, decrease or poll on a different key k, and no swap of sink or
\* swim, changes valueOf(j) or whether j is active.
C22_ValuesBoundToKeys ==
  /\ \A j \in Keys(heap) : contains(heap, j) <=> latest[j] # Null
  /\ \A j \in ActiveKeys(heap) : ValueOfIs(heap, j, latest[j])
  /\ \A i \in 0..(size(heap) - 1) :
       /\ sink(heap, i).values = heap.values
       /\ swim(heap, i).values = heap.values
       /\ \A s \in 0..(size(heap) - 1) :
            swap(heap, i, s).values = heap.values

\* keys with different recorded values, where deleting or updating k moves
\* j to another slot and valueOf(j) still returns the value recorded for j
C22_Witness ==
  /\ \E k \in Keys(heap) : latest[k] = Null
  /\ \E j \in ActiveKeys(heap) : \E k \in ActiveKeys(heap) \ {j} :
       /\ latest[j] # latest[k]
       /\ ValueOfIs(heap, j, latest[j])
       /\ \/ /\ delete(heap, k).heap.pm[j] # heap.pm[j]
             /\ ValueOfIs(delete(heap, k).heap, j, latest[j])
          \/ \E v \in Vals :
               /\ update(heap, k, v).heap.pm[j] # heap.pm[j]
               /\ ValueOfIs(update(heap, k, v).heap, j, latest[j])

\* C23: failed operations have no effect. Whenever an operation raises
\* KeyOutOfBounds, DuplicateKey, UnknownKey, NullValue or EmptyQueue, the
\* arrays pm, im and values and the size are identical to their state
\* before the call, so heap order and the bijection still hold and the heap
\* remains usable.
C23_FailedCallsHaveNoEffect ==
  /\ [](phase = "failed" =>
         HeapOrdered(heap) /\ C2_Bijection /\ SentinelsConsistent(heap))
  /\ [][phase' = "failed" =>
       /\ heap'.pm = heap.pm
       /\ heap'.im = heap.im
       /\ heap'.values = heap.values
       /\ heap'.sz = heap.sz
       /\ heap' = heap]_vars

\* after a failed call, a heap with active and inactive keys on which calls
\* raise each of the four key and value errors, and after the failed insert
\* of a null value a key can still be inserted, read and polled
C23_Witness ==
  /\ phase = "failed"
  /\ \E a \in ActiveKeys(heap) : \E b \in Keys(heap) \ ActiveKeys(heap) :
       /\ insert(heap, a, MaxVal).kind = "DuplicateKey"
       /\ insert(heap, heap.N, MaxVal).kind = "KeyOutOfBounds"
       /\ delete(heap, b).kind = "UnknownKey"
       /\ update(heap, a, Null).kind = "NullValue"
       /\ insert(heap, b, Null).kind = "NullValue"
       /\ LET again == insert(insert(heap, b, Null).heap, b, 1)
          IN  /\ again.kind = "ok"
              /\ ValueOfIs(again.heap, b, 1)
              /\ pollMinValue(again.heap).kind = "ok"

\* after a failed call, an empty heap on which the peeks and polls raise
\* EmptyQueue and an insert succeeds
C23_WitnessEmpty ==
  /\ phase = "failed"
  /\ pollMinKeyIndex(heap).kind = "EmptyQueue"
  /\ pollMinValue(heap).kind = "EmptyQueue"
  /\ peekMinValue(heap).kind = "EmptyQueue"
  /\ pollMinValue(heap).heap = heap
  /\ insert(pollMinValue(heap).heap, 0, 1).kind = "ok"


(* ------------------ the two AVL trees side by side --------------------- *)

\* both calls returned the same value and left trees of the same shape,
\* contents and count
SameTreeResult(r, ro) ==
  /\ r.val = ro.val
  /\ r.tree.root = ro.tree.root
  /\ r.tree.nodeCount = ro.tree.nodeCount
  /\ avl_size(r.tree) = opt_size(ro.tree)
  /\ avl_height(r.tree) = opt_height(ro.tree)

\* C24: AVLTreeRecursive and AVLTreeRecursiveOptimized are observationally
\* equivalent. Driven by the same sequence of insert and remove calls with
\* non-null values, both return the same boolean from every insert, remove
\* and contains call, report the same size() and height() after every
\* step, and hold trees of identical shape and contents.
C24_ObservationalEquivalence ==
  /\ tree.root = otree.root
  /\ avl_size(tree) = opt_size(otree)
  /\ avl_height(tree) = opt_height(otree)
  /\ avl_iterator(tree) = opt_iterator(otree)
  /\ \A value \in Elems :
       /\ avl_contains(tree, value) = opt_contains(otree, value)
       /\ SameTreeResult(avl_insert(tree, value), opt_insert(otree, value))
       /\ SameTreeResult(avl_remove(tree, value), opt_remove(otree, value))

\* trees of several nodes whose root has two children: an insert of a new
\* value and of a stored one, a remove of an absent value and the remove of
\* the root, which rebalances, return the same from both
C24_Witness ==
  /\ avl_size(tree) >= 4
  /\ opt_size(otree) >= 4
  /\ tree.root.left # NullNode
  /\ tree.root.right # NullNode
  /\ otree.root.left # NullNode
  /\ otree.root.right # NullNode
  /\ \E value \in Elems :
       avl_insert(tree, value).val /\ opt_insert(otree, value).val
  /\ \E value \in Elems :
       ~avl_remove(tree, value).val /\ ~opt_remove(otree, value).val
  /\ ~avl_insert(tree, tree.root.value).val
  /\ ~opt_insert(otree, otree.root.value).val
  /\ LET r == avl_remove(tree, tree.root.value)
         ro == opt_remove(otree, otree.root.value)
     IN  /\ r.val /\ ro.val
         /\ SameTreeResult(r, ro)
         /\ r.tree.root.height < tree.root.height

====
